---- MODULE Spec2Model ----
(***************************************************************************)
(* Model of the servess routing core: path-pattern compilation             *)
(* (RouterContext.create / getPathRegExp), route listeners, the router     *)
(* target lists with detach, and the recursive dispatch (handle).          *)
(*                                                                         *)
(* Strings are sequences of one-character strings.  The two pieces of      *)
(* regular-expression syntax the compiler emits for a named parameter,     *)
(* "(?<" and ">[^/]+)", are kept as single tokens of the pattern source.   *)
(***************************************************************************)
EXTENDS Integers, Sequences, FiniteSets

\* ------------------------------------------------------------------------
\* Strings
\* ------------------------------------------------------------------------

\* String.prototype.startsWith / endsWith for a one-character needle.
StartsWith(s, c) == Len(s) > 0 /\ s[1] = c

EndsWith(s, c) == Len(s) > 0 /\ s[Len(s)] = c

\* path.startsWith('/') ? path.slice(1) : path
StripLeadingSlash(path) ==
    IF StartsWith(path, "/") THEN Tail(path) ELSE path

\* String.prototype.split('/'): the segments between the slashes; the empty
\* string splits into one empty segment.
RECURSIVE SplitFrom(_, _, _)
SplitFrom(s, i, cur) ==
    IF i > Len(s) THEN <<cur>>
    ELSE IF s[i] = "/" THEN <<cur>> \o SplitFrom(s, i + 1, <<>>)
    ELSE SplitFrom(s, i + 1, Append(cur, s[i]))

Split(s) == SplitFrom(s, 1, <<>>)

\* Array.prototype.join('/')
RECURSIVE Join(_)
Join(parts) ==
    IF Len(parts) = 0 THEN <<>>
    ELSE IF Len(parts) = 1 THEN parts[1]
    ELSE parts[1] \o <<"/">> \o Join(Tail(parts))

\* String.prototype.toUpperCase on the method names the model uses.
ToUpperCase(m) ==
    CASE m \in {"get", "Get"} -> "GET"
      [] m \in {"post", "Post"} -> "POST"
      [] OTHER -> m

\* ------------------------------------------------------------------------
\* RouterContext.create: prefix normalisation
\* ------------------------------------------------------------------------

PrefixPathAsGiven(prefix) == prefix

PrefixPath(prefix) ==
    IF Len(prefix) = 1
    THEN (IF prefix = <<"/">> THEN <<"/">> ELSE <<"/">> \o prefix \o <<"/">>)
    ELSE IF StartsWith(prefix, "/")
         THEN (IF EndsWith(prefix, "/") THEN prefix ELSE prefix \o <<"/">>)
         ELSE IF EndsWith(prefix, "/")
              THEN <<"/">> \o prefix
              ELSE <<"/">> \o prefix \o <<"/">>

\* createRouter(path): the prefix argument handed to RouterContext.create.
SubPrefix(prefixPath, path) == prefixPath \o StripLeadingSlash(path)

\* ------------------------------------------------------------------------
\* getPathRegExp: the source text of the regular expression
\* ------------------------------------------------------------------------

MapPartLiteral(part) == part

\* part.startsWith(':') ? `(?<${part.substring(1)}>[^/]+)` : part
MapPart(part) ==
    IF StartsWith(part, ":")
    THEN <<"(?<">> \o Tail(part) \o <<">[^/]+)">>
    ELSE part

MapParts(parts) == [i \in DOMAIN parts |-> MapPart(parts[i])]

KeepTrailingSlash(s) == s

\* .replace(/\/$/, '/?')
ReplaceTrailingSlash(s) == IF EndsWith(s, "/") THEN Append(s, "?") ELSE s

NeverSlashStar(s) == FALSE

\* fullPathWithParamCutouts.endsWith('/*')
EndsWithSlashStar(s) ==
    Len(s) >= 2 /\ s[Len(s) - 1] = "/" /\ s[Len(s)] = "*"

FullPathNoPrefix(prefixPath, path) == <<"/">> \o StripLeadingSlash(path)

\* const fullPath = prefixPath + (path.startsWith('/') ? path.slice(1) : path)
FullPath(prefixPath, path) == prefixPath \o StripLeadingSlash(path)

FullPathWithParamCutouts(fullPath) ==
    ReplaceTrailingSlash(Join(MapParts(Split(fullPath))))

\* '^' + (cut.endsWith('/*') ? cut.replace(/\/\*$/, '/.*') : cut + '$')
RegExpSource(cut) ==
    <<"^">> \o (IF EndsWithSlashStar(cut)
                THEN SubSeq(cut, 1, Len(cut) - 1) \o <<".", "*">>
                ELSE Append(cut, "$"))

\* ------------------------------------------------------------------------
\* new RegExp(source): parsing the source into atoms
\* ------------------------------------------------------------------------

\* Characters allowed in a capture-group name (an identifier).
IdentStart == {"a", "b", "c", "d", "e", "f", "i", "l", "p", "r", "s", "u", "x", "_"}

IdentPart == IdentStart \cup {"0", "1", "2", "4"}

ValidGroupName(name) ==
    /\ Len(name) > 0
    /\ name[1] \in IdentStart
    /\ \A i \in DOMAIN name : name[i] \in IdentPart

Quantifiers == {"*", "?"}

Atom(t, c, name, q) == [t |-> t, c |-> c, name |-> name, q |-> q]

\* Index of the token ">[^/]+)" that closes the group opened before index i.
RECURSIVE GroupEnd(_, _)
GroupEnd(src, i) ==
    IF i > Len(src) THEN 0
    ELSE IF src[i] = ">[^/]+)" THEN i
    ELSE GroupEnd(src, i + 1)

\* The text between '(?<' and the '>' that MapPart wrote: the group's name
\* ends at the first '>' of the source, so a '>' inside that text ends the
\* name early and what follows it, the '>' MapPart wrote included, is the
\* start of the group's body.
FirstGt(text) ==
    IF \E k \in DOMAIN text : text[k] = ">"
    THEN CHOOSE k \in DOMAIN text : text[k] = ">" /\ \A m \in 1..(k - 1) : text[m] # ">"
    ELSE 0

GroupNameOf(text) ==
    IF FirstGt(text) = 0 THEN text ELSE SubSeq(text, 1, FirstGt(text) - 1)

\* The literal characters the body starts with, before '[^/]+'.  (In every
\* path the model registers these are characters that stand for themselves.)
GroupBodyPrefix(text) ==
    IF FirstGt(text) = 0 THEN <<>>
    ELSE SubSeq(text, FirstGt(text) + 1, Len(text)) \o <<">">>

\* Parses src from index i.  The result is [ok, atoms, anchored]; ok is FALSE
\* where the RegExp constructor throws a SyntaxError (invalid or duplicate
\* group name, a quantifier with nothing to repeat).
RECURSIVE ParseFrom(_, _, _)
ParseFrom(src, i, atoms) ==
    IF i > Len(src) THEN [ok |-> TRUE, atoms |-> atoms, anchored |-> FALSE]
    ELSE IF src[i] = "$" /\ i = Len(src)
    THEN [ok |-> TRUE, atoms |-> atoms, anchored |-> TRUE]
    ELSE IF src[i] \in Quantifiers
    THEN \* a quantifier directly after a quantifier, or after nothing
         [ok |-> FALSE, atoms |-> <<>>, anchored |-> FALSE]
    ELSE IF src[i] = "(?<"
    THEN LET e == GroupEnd(src, i + 1)
             name == GroupNameOf(SubSeq(src, i + 1, e - 1))
             body == GroupBodyPrefix(SubSeq(src, i + 1, e - 1))
         IN  IF e = 0 \/ ~ValidGroupName(name)
                \/ \E k \in DOMAIN atoms : atoms[k].t = "grp" /\ atoms[k].name = name
             THEN [ok |-> FALSE, atoms |-> <<>>, anchored |-> FALSE]
             ELSE ParseFrom(src, e + 1, Append(atoms, Atom("grp", body, name, "1")))
    ELSE LET t == IF src[i] = "." THEN "any" ELSE "lit"
             hasQ == i < Len(src) /\ src[i + 1] \in Quantifiers
             q == IF hasQ THEN src[i + 1] ELSE "1"
         IN  ParseFrom(src, IF hasQ THEN i + 2 ELSE i + 1,
                       Append(atoms, Atom(t, src[i], <<>>, q)))

\* new RegExp(source); every source the compiler builds starts with '^'.
NewRegExp(src) == ParseFrom(src, 2, <<>>)

\* getPathRegExp(path) of a router whose normalised prefix is prefixPath.
getPathRegExp(prefixPath, path) ==
    NewRegExp(RegExpSource(FullPathWithParamCutouts(FullPath(prefixPath, path))))

\* ------------------------------------------------------------------------
\* RegExp.prototype.test / exec: backtracking match anchored at the start
\* ------------------------------------------------------------------------

\* One character against the body of an atom.
CharOK(a, ch) ==
    CASE a.t = "lit" -> ch = a.c
      [] a.t = "any" -> TRUE
      [] OTHER -> ch # "/"

\* The number of characters from position j on that the atom's body accepts.
RECURSIVE Run(_, _, _)
Run(a, s, j) ==
    IF j <= Len(s) /\ CharOK(a, s[j]) THEN 1 + Run(a, s, j + 1) ELSE 0

\* The repetition counts an atom allows at position j.  A group takes the
\* literal characters its body starts with, then one or more characters
\* other than '/'.
Counts(a, s, j) ==
    LET r == Run(a, s, j)
    IN  CASE a.t = "grp" ->
               IF /\ j + Len(a.c) - 1 <= Len(s)
                  /\ SubSeq(s, j, j + Len(a.c) - 1) = a.c
               THEN {Len(a.c) + n : n \in 1..Run(a, s, j + Len(a.c))}
               ELSE {}
          [] a.q = "*" -> 0..r
          [] a.q = "?" -> 0..(IF r > 0 THEN 1 ELSE 0)
          [] OTHER -> IF r > 0 THEN {1} ELSE {}

RECURSIVE MatchFrom(_, _, _, _)
MatchFrom(re, s, i, j) ==
    IF i > Len(re.atoms)
    THEN (~re.anchored) \/ j = Len(s) + 1
    ELSE \E k \in Counts(re.atoms[i], s, j) : MatchFrom(re, s, i + 1, j + k)

\* pathAsRegExp.test(path)
RegExpTest(re, s) == MatchFrom(re, s, 1, 1)

Max(S) == CHOOSE x \in S : \A y \in S : y <= x

\* The named captures of the first match in backtracking order: every
\* quantifier is greedy, so each atom takes the largest count for which the
\* rest still matches.
RECURSIVE GroupsFrom(_, _, _, _)
GroupsFrom(re, s, i, j) ==
    IF i > Len(re.atoms) THEN {}
    ELSE LET a == re.atoms[i]
             k == Max({n \in Counts(a, s, j) : MatchFrom(re, s, i + 1, j + n)})
         IN  (IF a.t = "grp" THEN {<<a.name, SubSeq(s, j, j + k - 1)>>} ELSE {})
             \cup GroupsFrom(re, s, i + 1, j + k)

HasGroups(re) == \E k \in DOMAIN re.atoms : re.atoms[k].t = "grp"

\* pathAsRegExp.exec(path)!.groups: undefined for a pattern without named
\* groups, otherwise the captures by name.
ExecGroups(re, s) ==
    IF HasGroups(re)
    THEN [defined |-> TRUE, map |-> GroupsFrom(re, s, 1, 1)]
    ELSE [defined |-> FALSE, map |-> {}]

\* ------------------------------------------------------------------------
\* Array helpers with the JavaScript semantics the routers rely on
\* ------------------------------------------------------------------------

\* Array.prototype.indexOf: the 0-based index of the first occurrence, or -1.
RECURSIVE IndexFrom(_, _, _)
IndexFrom(arr, item, i) ==
    IF i > Len(arr) THEN -1
    ELSE IF arr[i] = item THEN i - 1
    ELSE IndexFrom(arr, item, i + 1)

IndexOf(arr, item) == IndexFrom(arr, item, 1)

\* The start index splice works from: a negative start counts from the end.
RelativeStart(arr, start) ==
    IF start < 0
    THEN (IF Len(arr) + start < 0 THEN 0 ELSE Len(arr) + start)
    ELSE (IF start > Len(arr) THEN Len(arr) ELSE start)

\* Array.prototype.splice(start): removes every element from start to the end.
SpliceToEnd(arr, start) == SubSeq(arr, 1, RelativeStart(arr, start))

\* Array.prototype.splice(start, deleteCount)
SpliceCount(arr, start, deleteCount) ==
    LET from == RelativeStart(arr, start)
        n == IF deleteCount > Len(arr) - from THEN Len(arr) - from ELSE deleteCount
    IN  SubSeq(arr, 1, from) \o SubSeq(arr, from + n + 1, Len(arr))

\* ------------------------------------------------------------------------
\* Bounds and inputs of the router model
\* ------------------------------------------------------------------------

MaxListeners == 3

MaxRouters == 2

\* Registrations and detaches that may interleave with one dispatch in progress.
MaxMidDispatchOps == 1

\* Paths handed to any/add, to createRouter, and request paths.
RoutePaths == {<<"*">>}

AddPaths == {<<"a">>}

RouterPaths == {<<"/", "a">>}

RequestPaths == {<<"/", "a">>, <<"/", "a", "/", "a">>}

RequestMethods == {"GET", "POST"}

AddMethods == {"get"}

HandlerReturns == {"undefined", "text"}

\* ------------------------------------------------------------------------
\* State
\* ------------------------------------------------------------------------

VARIABLES
    prefixPaths,   \* per router: its normalised prefix (router 1 is the root)
    prefixes,      \* per router: the prefix handed to RouterContext.create for it
    parents,       \* per router: the router whose createRouter made it, 0 for the root
    handlers,      \* per router: its target list
    listeners,     \* per route listener: owner router, pathAsRegExp, preConditions,
                   \* the path it was registered with and the full path built from it
    lastDetach,    \* the target whose detach() was the step just taken, if any
    stack,         \* the handle() calls in progress: router, iterated list, position
    ctx,           \* the message context of the request being dispatched
    phase,         \* where the dispatch stands
    current,       \* the listener being evaluated, and its next precondition
    result,        \* what the root handle() returned
    log,           \* the targets invoked by the dispatch, in order, with results
    handlerCalls,  \* the listeners whose route handler was invoked by the dispatch
    midOps,        \* registrations and detaches since the dispatch in progress began
    app,           \* the application: its installed extensions and decorated fields
    installs,      \* the calls of app.install made, each with the await it stands at
    decorations,   \* the calls of decorateRouterContext / decorateMessageContext made
                   \* for a router or a message, each with the await it stands at
    routerFields,  \* per router made by createRouter: the fields merged onto it
    request        \* the run of handlerFunction(req, res) in progress: the await
                   \* it stands at, the hooks called and settled, what was
                   \* written to res

vars == <<prefixPaths, prefixes, parents, handlers, listeners, lastDetach,
          stack, ctx, phase, current, result, log, handlerCalls, midOps,
          app, installs, decorations, routerFields, request>>

appVars == <<app, installs>>

decorationVars == <<decorations, routerFields>>

treeVars == <<prefixPaths, prefixes, parents, handlers, listeners>>

dispatchVars == <<stack, ctx, phase, current, result, handlerCalls>>

Routers == DOMAIN handlers

Listeners == DOMAIN listeners

ListenerTarget(l) == [kind |-> "listener", id |-> l]

RouterTarget(r) == [kind |-> "router", id |-> r]

NoTarget == [kind |-> "none", id |-> 0]

\* The message context of the request in progress, as the target of a call.
MessageTarget == [kind |-> "message", id |-> 0]

\* RouterHandleResponse.create
RouterHandleResponseCreate(type, value) ==
    [type |-> type, result |-> IF type = "RESULT" THEN value ELSE "none"]

Unhandled == RouterHandleResponseCreate("UNHANDLED", "none")

NoResult == [type |-> "NONE", result |-> "none"]

NoParams == [defined |-> FALSE, map |-> {}]

NoCurrent == [listener |-> 0, pre |-> 0]

\* The accept header of a request that sends none: (req.headers.accept ?? '')
\* is the empty string, which splits into one item with an empty mime type.
NoAcceptHeader == <<[mimeType |-> <<>>, hasQ |-> FALSE, q |-> 0]>>

\* The server response of a request: nothing written yet.
NoResponse == [headWritten |-> FALSE, status |-> 0, headers |-> <<>>,
               body |-> "none", ended |-> FALSE]

\* The IncomingMessage of a request: its path, method and accept header.
IncomingMessage(path, method, accept) ==
    [path |-> path, method |-> method, accept |-> accept]

\* No request is being processed by handlerFunction.
NoRequest ==
    [at |-> "none", req |-> IncomingMessage(<<>>, "GET", NoAcceptHeader),
     extensions |-> <<>>, events |-> <<>>, task |-> 0,
     handleResult |-> NoResult, res |-> NoResponse, piping |-> FALSE]

NoCall == [op |-> "none", arg |-> <<>>, ret |-> <<>>, thrown |-> FALSE]

\* let cachedBodyBuffer: undefined until bodyAsBuffer is read.
NoPromise == [id |-> 0, state |-> "none", size |-> 0]

\* The body of a request: the content-length header of the request, the
\* sizes of the chunks the stream has yet to deliver and what it emits after
\* them ('end' or 'error'), whether it flows, whether it is over, the
\* listeners bodyAsBuffer holds on it with the bytes they have accumulated,
\* cachedBodyBuffer, and the promises the reads of bodyAsBuffer returned.
\* A request without a body: no header, no chunk, nothing read.
NoBody ==
    [contentLength |-> [present |-> FALSE, value |-> 0],
     incoming |-> <<>>, fate |-> "end", flowing |-> FALSE, over |-> "no",
     onData |-> "none", onEnd |-> FALSE, onError |-> FALSE, totalSize |-> 0,
     cachedBodyBuffer |-> NoPromise, returned |-> {}, accesses |-> 0]

\* MessageContext.create: the context of a request with the given path,
\* method and accept header; responseStatus = 200, no response header yet.
\* externallyHandled = false, and no field merged onto it by
\* decorateMessageContext.  call is the last call made on the context
\* (accepts, accepting or a redirect) with what it returned or invoked.
MessageContextCreate(path, method, accept) ==
    [path |-> path, method |-> method, params |-> NoParams,
     accept |-> accept, status |-> 200, responseHeaders |-> <<>>,
     externallyHandled |-> FALSE, fields |-> <<>>,
     call |-> NoCall, body |-> NoBody]

NoContext == MessageContextCreate(<<>>, "GET", NoAcceptHeader)

\* ------------------------------------------------------------------------
\* Extensions and the decoration functions
\* ------------------------------------------------------------------------

\* A decoration hook an extension does not define.
NoHook == [defined |-> FALSE, truthy |-> FALSE, fields |-> <<>>]

\* A decoration hook that resolves to nothing.
VoidHook == [defined |-> TRUE, truthy |-> FALSE, fields |-> <<>>]

\* A decoration hook that resolves to a partial object.
PartialHook(fields) == [defined |-> TRUE, truthy |-> TRUE, fields |-> fields]

\* Inputs: the extensions.  Their factories are handed to install as
\* promises and their hooks return promises, each settling at a time of its
\* own.  Two extensions decorate the application with a field 'render', one
\* of them also with 'ws'; two decorate only the router
\* context, both with a field 'log'.
\* Of the hooks of a request, 'tmpl' decorates the message context and
\* defines onIncomingMessage and onMessageHandled, 'ws' defines onMessage and
\* onMessageHandled, 'log' defines them all, 'auth' defines only a
\* decorateMessageContext that returns nothing.
ExtensionFactories ==
    {[name |-> "tmpl", decorateRouterContext |-> NoHook,
      decorateApplication |-> PartialHook([render |-> "tmpl"]),
      decorateMessageContext |-> PartialHook([render |-> "tmpl"]),
      onIncomingMessage |-> VoidHook, onMessage |-> NoHook,
      onMessageHandled |-> VoidHook],
     [name |-> "ws", decorateRouterContext |-> VoidHook,
      decorateApplication |-> PartialHook([render |-> "ws", ws |-> "ws"]),
      decorateMessageContext |-> NoHook,
      onIncomingMessage |-> NoHook, onMessage |-> VoidHook,
      onMessageHandled |-> VoidHook],
     [name |-> "log", decorateRouterContext |-> PartialHook([log |-> "log"]),
      decorateApplication |-> NoHook,
      decorateMessageContext |-> PartialHook([log |-> "log"]),
      onIncomingMessage |-> VoidHook, onMessage |-> VoidHook,
      onMessageHandled |-> VoidHook],
     [name |-> "auth", decorateRouterContext |-> PartialHook([log |-> "auth", user |-> "auth"]),
      decorateApplication |-> NoHook,
      decorateMessageContext |-> VoidHook,
      onIncomingMessage |-> NoHook, onMessage |-> NoHook,
      onMessageHandled |-> NoHook]}

\* execFunctionOnArray: what the hooks of the extensions that define the
\* function resolve to, in the order of the array.
ExecFunctionOnArray(array, functionName) ==
    LET having == SelectSeq(array, LAMBDA item : item[functionName].defined)
    IN  [k \in DOMAIN having |-> having[k][functionName]]

\* .filter(Boolean)
FilterBoolean(results) == SelectSeq(results, LAMBDA res : res.truthy)

\* Object.assign(target, ...sources): the sources are copied onto the target
\* one after the other, a later one overwriting the fields of an earlier one.
RECURSIVE ObjectAssign(_, _)
ObjectAssign(target, sources) ==
    IF Len(sources) = 0 THEN target
    ELSE ObjectAssign([f \in DOMAIN target \cup DOMAIN sources[1].fields |->
                          IF f \in DOMAIN sources[1].fields
                          THEN sources[1].fields[f]
                          ELSE target[f]],
                      Tail(sources))

DecorateNothing(fields, extensions, functionName) == fields

\* decorateApplication(app, ...extensions) and decorateRouterContext(app,
\* ...extensions), once their hooks have resolved.
Decorate(fields, extensions, functionName) ==
    ObjectAssign(fields, FilterBoolean(ExecFunctionOnArray(extensions, functionName)))

\* The positions, in array order, of the extensions that define the function.
Having(extensions, functionName) ==
    SelectSeq([k \in DOMAIN extensions |-> k],
              LAMBDA k : extensions[k][functionName].defined)

\* What happened to a hook: it was called, or the promise it returned settled.
HookEvent(pass, ext, ev) == [pass |-> pass, ext |-> ext, ev |-> ev]

\* execFunctionOnArray calls the hook of every extension that defines the
\* function, in the order of the array, before it awaits any of them.
CallHooks(extensions, functionName, pass) ==
    [j \in DOMAIN Having(extensions, functionName) |->
        HookEvent(pass, Having(extensions, functionName)[j], "called")]

\* The hooks of a pass whose promise has not settled.
PendingHooks(task, pass) ==
    {k \in DOMAIN task.extensions :
        /\ \E m \in DOMAIN task.events : task.events[m] = HookEvent(pass, k, "called")
        /\ \A m \in DOMAIN task.events : task.events[m] # HookEvent(pass, k, "settled")}

\* decorateRouterContext / decorateMessageContext (target, ...extensions) is
\* called: doLifecycle calls the hooks a first time and the function stops at
\* 'await doLifecycle'.
DecorateCall(target, extensions, functionName) ==
    [target |-> target, functionName |-> functionName, extensions |-> extensions,
     at |-> "doLifecycle", events |-> CallHooks(extensions, functionName, 1)]

LifecycleNotAwaited(task) == TRUE

\* await doLifecycle(...): Promise.all over the promises of the first pass.
LifecycleAwaited(task) == PendingHooks(task, 1) = {}

\* The fields decoration has merged onto router r.
RouterFields(fields, r) == IF r \in DOMAIN fields THEN fields[r] ELSE <<>>

\* createApp: no extension installed, no field decorated.
\* onError and onUnhandled are undefined.
CreateApp == [extensions |-> <<>>, fields |-> <<>>,
              onError |-> "none", onUnhandled |-> "none"]

Init ==
    /\ prefixPaths = <<PrefixPath(<<"/">>)>>
    /\ prefixes = << <<"/">> >>
    /\ parents = <<0>>
    /\ handlers = << <<>> >>
    /\ listeners = <<>>
    /\ lastDetach = NoTarget
    /\ stack = <<>>
    /\ ctx = NoContext
    /\ phase = "idle"
    /\ current = NoCurrent
    /\ result = NoResult
    /\ log = <<>>
    /\ handlerCalls = <<>>
    /\ midOps = 0
    /\ app = CreateApp
    /\ installs = <<>>
    /\ decorations = <<>>
    /\ routerFields = <<>>
    /\ request = NoRequest

\* ------------------------------------------------------------------------
\* Registration and detach
\* ------------------------------------------------------------------------

InDispatch == phase \in {"loop", "pre", "handler"}

\* A registration or detach runs between two steps of the dispatch in
\* progress (from a handler, a precondition or another task), or while no
\* request is being processed; it touches nothing of the dispatch.
Interleaved ==
    /\ phase # "done"
    /\ InDispatch => midOps < MaxMidDispatchOps
    /\ midOps' = IF InDispatch THEN midOps + 1 ELSE midOps
    /\ UNCHANGED dispatchVars

\* The log, with the entry of the listener under evaluation marked when its
\* detach() is called during its own turn.
MarkDetached(l) ==
    IF phase \in {"pre", "handler"} /\ current.listener = l
    THEN [log EXCEPT ![Len(log)].detached = TRUE]
    ELSE log

\* The handler any() installs, and the method of a listener made by any().
FirstHandler == "h1"

NoMethod == "none"

\* RouteListener.create + replaceHandler + handlers.push(listener).  The
\* RegExp constructor throws before anything is created or pushed.  The
\* listener keeps, beside what the code keeps, the method and path it was
\* registered with.
AnyListener(r, path, pre, method) ==
    LET re == getPathRegExp(prefixPaths[r], path)
        l == Len(listeners) + 1
    IN  /\ Len(listeners) < MaxListeners
        /\ IF re.ok
           THEN /\ listeners' = Append(listeners,
                       [owner |-> r, regexp |-> re, preConditions |-> pre,
                        routeHandler |-> FirstHandler,
                        method |-> method,
                        path |-> path,
                        fullPath |-> FullPath(prefixPaths[r], path)])
                /\ handlers' = [handlers EXCEPT ![r] = Append(@, ListenerTarget(l))]
           ELSE UNCHANGED <<listeners, handlers>>
        /\ UNCHANGED <<prefixPaths, prefixes, parents, log>>
        /\ lastDetach' = NoTarget
        /\ Interleaved
        /\ UNCHANGED <<appVars, decorationVars, request>>

\* ctx.any(path, handler)
Any(r, path) == AnyListener(r, path, <<>>, NoMethod)

\* ctx.add(method, path, handler): any(...) plus the method precondition.
Add(r, method, path) == AnyListener(r, path, <<ToUpperCase(method)>>, method)

\* ctx.get(path, handler): ctx.add('GET', path, handler)
Get(r, path) == Add(r, "GET", path)

\* listener.addPreCondition(pred), for a predicate ctx => ctx.method === pred
AddPreCondition(l, pred) ==
    /\ listeners' = [listeners EXCEPT ![l].preConditions = Append(@, pred)]
    /\ UNCHANGED <<prefixPaths, prefixes, parents, handlers, log>>
    /\ lastDetach' = NoTarget
    /\ Interleaved
    /\ UNCHANGED <<appVars, decorationVars, request>>

\* The log: when the handler of the listener whose handler is running is
\* replaced, the listener's entry keeps the handler it held before.
MarkReplaced(l) ==
    IF phase = "handler" /\ current.listener = l /\ log[Len(log)].replaced = "none"
    THEN [log EXCEPT ![Len(log)].replaced = listeners[l].routeHandler]
    ELSE log

\* listener.replaceHandler(newHandler)
ReplaceHandler(l, newHandler) ==
    /\ listeners' = [listeners EXCEPT ![l].routeHandler = newHandler]
    /\ log' = MarkReplaced(l)
    /\ UNCHANGED <<prefixPaths, prefixes, parents, handlers>>
    /\ lastDetach' = NoTarget
    /\ Interleaved
    /\ UNCHANGED <<appVars, decorationVars, request>>

\* ctx.createRouter(path).  decorateRouterContext(router, ...extensions) is
\* called and not awaited; with no extension installed it calls no hook and
\* merges nothing.
CreateRouter(r, path) ==
    LET n == Len(handlers) + 1
    IN  /\ Len(handlers) < MaxRouters
        /\ prefixPaths' = Append(prefixPaths, PrefixPath(SubPrefix(prefixPaths[r], path)))
        /\ prefixes' = Append(prefixes, SubPrefix(prefixPaths[r], path))
        /\ parents' = Append(parents, r)
        /\ handlers' = Append([handlers EXCEPT ![r] = Append(@, RouterTarget(n))], <<>>)
        /\ UNCHANGED <<listeners, log>>
        /\ lastDetach' = NoTarget
        /\ Interleaved
        /\ decorations' = IF Len(app.extensions) = 0 THEN decorations
                          ELSE Append(decorations,
                                      DecorateCall(RouterTarget(n), app.extensions,
                                                   "decorateRouterContext"))
        /\ UNCHANGED <<appVars, routerFields, request>>

\* The listener's detach function: () => handlers.splice(handlers.indexOf(listener))
ListenerDetachResult(arr, l) == SpliceToEnd(arr, IndexOf(arr, ListenerTarget(l)))

DetachListener(l) ==
    /\ handlers' = [handlers EXCEPT ![listeners[l].owner] = ListenerDetachResult(@, l)]
    /\ lastDetach' = ListenerTarget(l)
    /\ log' = MarkDetached(l)
    /\ UNCHANGED <<prefixPaths, prefixes, parents, listeners>>
    /\ Interleaved
    /\ UNCHANGED <<appVars, decorationVars, request>>

RouterDetachToEnd(arr, r) == SpliceToEnd(arr, IndexOf(arr, RouterTarget(r)))

\* router.detach: index = handlers.indexOf(router.handle);
\* if (index !== -1) handlers.splice(index, 1).  The root's detach does nothing.
RouterDetachResult(arr, r) ==
    LET index == IndexOf(arr, RouterTarget(r))
    IN  IF index # -1 THEN SpliceCount(arr, index, 1) ELSE arr

DetachRouter(r) ==
    /\ handlers' = IF parents[r] = 0 THEN handlers
                   ELSE [handlers EXCEPT ![parents[r]] = RouterDetachResult(@, r)]
    /\ lastDetach' = RouterTarget(r)
    /\ UNCHANGED <<prefixPaths, prefixes, parents, listeners, log>>
    /\ Interleaved
    /\ UNCHANGED <<appVars, decorationVars, request>>

\* ------------------------------------------------------------------------
\* Dispatch: RouterContext.handle and RouteListener's wrappedRouteHandler
\* ------------------------------------------------------------------------

\* handle(): for (const handler of handlers.slice()) -- the copy made when
\* the call starts.
Snapshot(r) == handlers[r]

Frame(r) == [router |-> r, snap |-> Snapshot(r), i |-> 1]

\* The list a handle() call in progress iterates.
TargetsLive(frame) == handlers[frame.router]

Reverse(arr) == [k \in DOMAIN arr |-> arr[Len(arr) + 1 - k]]

TargetsReversed(frame) == Reverse(frame.snap)

Targets(frame) == frame.snap

Top == stack[Len(stack)]

Advance(st) == [st EXCEPT ![Len(st)].i = @ + 1]

\* A log entry: a target called from the loop of the frame at the given
\* depth (0: the root's handle, called by the application), the list its
\* router held when it was called, its result once it has returned.
LogEntry(depth, target) ==
    [depth |-> depth, target |-> target, res |-> "PENDING", detached |-> FALSE,
     pres |-> <<>>, called |-> "none", ret |-> "NONE", by |-> "none",
     replaced |-> "none", thrown |-> "none",
     snap |-> IF target.kind = "router" THEN handlers[target.id] ELSE <<>>]

\* For a listener's entry: pres are the preconditions evaluated so far (by
\* position), called is the route handler invoked, ret the value it returned,
\* by the handler that produced that value, and replaced the handler the
\* listener held when replaceHandler was called during the handler's run;
\* thrown is what the listener's precondition or handler threw.

\* The index of the log entry still pending at the given depth.
PendingAt(d) == Max({n \in DOMAIN log : log[n].depth = d /\ log[n].res = "PENDING"})

\* app.handle(message) for a new request.
HandleStart(path, method) ==
    /\ phase = "idle"
    /\ stack' = <<Frame(1)>>
    /\ ctx' = MessageContextCreate(path, method, NoAcceptHeader)
    /\ phase' = "loop"
    /\ current' = NoCurrent
    /\ result' = NoResult
    /\ log' = <<LogEntry(0, RouterTarget(1))>>
    /\ handlerCalls' = <<>>
    /\ midOps' = 0
    /\ lastDetach' = NoTarget
    /\ UNCHANGED <<appVars, decorationVars, request>>
    /\ UNCHANGED treeVars

\* if (!RouterHandleResponse.is(result, UNHANDLED)) return result
StopsLoopOnResultOnly(res) == res.type = "RESULT"

StopsLoopNever(res) == FALSE

StopsLoop(res) == res.type # "UNHANDLED"

\* The target last called (the last of entries) returned res to the loop of
\* the top frame: a result that stops the loop is returned by that handle()
\* and, through the same test, by every enclosing one; otherwise the loop
\* goes on with the next target.
TargetReturns(res, entries) ==
    /\ current' = NoCurrent
    /\ IF StopsLoop(res)
       THEN /\ result' = res
            /\ log' = [n \in DOMAIN entries |->
                          IF entries[n].res = "PENDING"
                          THEN [entries[n] EXCEPT !.res = res.type]
                          ELSE entries[n]]
            /\ stack' = <<>>
            /\ phase' = "done"
            /\ midOps' = 0
       ELSE /\ log' = [entries EXCEPT ![Len(entries)].res = res.type]
            /\ stack' = Advance(stack)
            /\ phase' = "loop"
            /\ UNCHANGED <<result, midOps>>

\* The listener's handler is called: ctx.params = exec(path).groups, then
\* routeHandler(ctx), the handler the listener holds at this moment.
InvokeHandler(l, entries) ==
    /\ ctx' = [ctx EXCEPT !.params = ExecGroups(listeners[l].regexp, ctx.path)]
    /\ handlerCalls' = Append(handlerCalls, l)
    /\ log' = [entries EXCEPT ![Len(entries)].called = listeners[l].routeHandler]
    /\ phase' = "handler"
    /\ current' = [listener |-> l, pre |-> 0]
    /\ UNCHANGED <<stack, result, midOps>>

\* The loop calls the next target that is a listener:
\* if (!pathAsRegExp.test(ctx.path)) return Unhandled; otherwise the
\* preconditions are evaluated, or the handler is called when there are none.
CallListener ==
    /\ phase = "loop"
    /\ Top.i <= Len(Targets(Top))
    /\ Targets(Top)[Top.i].kind = "listener"
    /\ LET t == Targets(Top)[Top.i]
           l == t.id
           entries == Append(log, LogEntry(Len(stack), t))
       IN  IF ~RegExpTest(listeners[l].regexp, ctx.path)
           THEN /\ TargetReturns(Unhandled, entries)
                /\ UNCHANGED <<ctx, handlerCalls>>
           ELSE IF Len(listeners[l].preConditions) = 0
                THEN InvokeHandler(l, entries)
                ELSE /\ log' = entries
                     /\ phase' = "pre"
                     /\ current' = [listener |-> l, pre |-> 1]
                     /\ UNCHANGED <<ctx, handlerCalls, stack, result, midOps>>
    /\ lastDetach' = NoTarget
    /\ UNCHANGED <<appVars, decorationVars, request>>
    /\ UNCHANGED treeVars

\* The precondition add() registers: ctx => ctx.method === METHOD
PreConditionInverted(pre, context) == context.method # pre

PreConditionHolds(pre, context) == context.method = pre

PreConditionIndexReversed(pres, k) == Len(pres) + 1 - k

\* for (const preCondition of preConditions): the position in the array of
\* the k-th precondition visited.
PreConditionIndex(pres, k) == k

\* Predicates handed to addPreCondition that throw, or return a promise that
\* rejects, instead of yielding a boolean; the failure is named after them.
ThrowingPreConditions == {"throws", "rejects"}

\* for (const preCondition of preConditions)
\*   if (!await preCondition(ctx)) return Unhandled
CheckPreCondition ==
    /\ phase = "pre"
    /\ listeners[current.listener].preConditions[
           PreConditionIndex(listeners[current.listener].preConditions, current.pre)]
          \notin ThrowingPreConditions
    /\ LET l == current.listener
           pres == listeners[l].preConditions
           index == PreConditionIndex(pres, current.pre)
           entries == [log EXCEPT ![Len(log)].pres = Append(@, index)]
       IN  IF ~PreConditionHolds(pres[index], ctx)
           THEN /\ TargetReturns(Unhandled, entries)
                /\ UNCHANGED <<ctx, handlerCalls>>
           ELSE IF current.pre = Len(pres)
                THEN InvokeHandler(l, entries)
                ELSE /\ log' = entries
                     /\ current' = [current EXCEPT !.pre = @ + 1]
                     /\ UNCHANGED <<ctx, handlerCalls, phase, stack, result, midOps>>
    /\ lastDetach' = NoTarget
    /\ UNCHANGED <<appVars, decorationVars, request>>
    /\ UNCHANGED treeVars

HandlerResponseFalsy(v) ==
    IF v \in {"undefined", ""}
    THEN RouterHandleResponseCreate("HANDLED", "none")
    ELSE RouterHandleResponseCreate("RESULT", v)

HandlerResponseUnhandled(v) == Unhandled

\* result === undefined ? Handled : Result(result)
HandlerResponse(v) ==
    IF v = "undefined"
    THEN RouterHandleResponseCreate("HANDLED", "none")
    ELSE RouterHandleResponseCreate("RESULT", v)

\* The handler whose call returns: the one that was invoked.
RunningHandlerLate == listeners[current.listener].routeHandler

RunningHandler == log[Len(log)].called

\* The route handler returns v and the listener returns the mapped result.
HandlerReturn(v) ==
    /\ phase = "handler"
    /\ TargetReturns(HandlerResponse(v),
                     [log EXCEPT ![Len(log)].ret = v, ![Len(log)].by = RunningHandler])
    /\ lastDetach' = NoTarget
    /\ UNCHANGED <<appVars, decorationVars, request>>
    /\ UNCHANGED <<ctx, handlerCalls, treeVars>>

FailureSwallowed(failure) == Unhandled

\* What a handle() call settles with when the target it awaits throws or
\* rejects: neither wrappedRouteHandler nor handle catches, so the promise
\* rejects with the failure.
FailureResponse(failure) == [type |-> "REJECTED", result |-> failure]

\* The target last called (the last of entries) threw: the rejection passes
\* through every handle() call in progress, up to the application.
TargetThrows(failure, entries) ==
    /\ current' = NoCurrent
    /\ result' = FailureResponse(failure)
    /\ log' = [n \in DOMAIN entries |->
                  IF entries[n].res = "PENDING"
                  THEN [entries[n] EXCEPT
                           !.res = FailureResponse(failure).type,
                           !.thrown = IF n = Len(entries) THEN failure ELSE @]
                  ELSE entries[n]]
    /\ stack' = <<>>
    /\ phase' = "done"
    /\ midOps' = 0

\* await preCondition(ctx) throws.
PreConditionThrows ==
    /\ phase = "pre"
    /\ LET pres == listeners[current.listener].preConditions
           index == PreConditionIndex(pres, current.pre)
       IN  /\ pres[index] \in ThrowingPreConditions
           /\ TargetThrows(pres[index],
                           [log EXCEPT ![Len(log)].pres = Append(@, index)])
    /\ lastDetach' = NoTarget
    /\ UNCHANGED <<appVars, decorationVars, request>>
    /\ UNCHANGED <<ctx, handlerCalls, treeVars>>

\* await routeHandler(ctx) throws.
HandlerThrows(failure) ==
    /\ phase = "handler"
    /\ TargetThrows(failure, log)
    /\ lastDetach' = NoTarget
    /\ UNCHANGED <<appVars, decorationVars, request>>
    /\ UNCHANGED <<ctx, handlerCalls, treeVars>>

\* The loop calls the next target that is a sub-router's handle: a new
\* handle() call starts on that router.
CallRouter ==
    /\ phase = "loop"
    /\ Top.i <= Len(Targets(Top))
    /\ Targets(Top)[Top.i].kind = "router"
    /\ LET t == Targets(Top)[Top.i]
       IN  /\ log' = Append(log, LogEntry(Len(stack), t))
           /\ stack' = Append(stack, Frame(t.id))
    /\ lastDetach' = NoTarget
    /\ UNCHANGED <<appVars, decorationVars, request>>
    /\ UNCHANGED <<ctx, phase, current, result, handlerCalls, midOps, treeVars>>

\* The loop of the top frame is exhausted: that handle() returns Unhandled,
\* to the application or to the loop of the enclosing handle().
ReturnUnhandled ==
    /\ phase = "loop"
    /\ Top.i > Len(Targets(Top))
    /\ log' = [log EXCEPT ![PendingAt(Len(stack) - 1)].res = "UNHANDLED"]
    /\ IF Len(stack) = 1
       THEN /\ result' = Unhandled
            /\ stack' = <<>>
            /\ phase' = "done"
            /\ midOps' = 0
       ELSE /\ stack' = Advance(SubSeq(stack, 1, Len(stack) - 1))
            /\ UNCHANGED <<result, phase, midOps>>
    /\ lastDetach' = NoTarget
    /\ UNCHANGED <<appVars, decorationVars, request>>
    /\ UNCHANGED <<ctx, current, handlerCalls, treeVars>>

\* The request is over: its message context and result are dropped.
RequestEnd ==
    /\ phase = "done"
    /\ phase' = "idle"
    /\ ctx' = NoContext
    /\ result' = NoResult
    /\ log' = <<>>
    /\ handlerCalls' = <<>>
    /\ lastDetach' = NoTarget
    /\ UNCHANGED <<appVars, decorationVars, request>>
    /\ UNCHANGED <<stack, current, midOps, treeVars>>

Next ==
    \/ \E r \in Routers, path \in RoutePaths : Any(r, path)
    \/ \E r \in Routers, m \in AddMethods, path \in AddPaths : Add(r, m, path)
    \/ \E r \in Routers, path \in RouterPaths : CreateRouter(r, path)
    \/ \E l \in Listeners : DetachListener(l)
    \/ \E r \in Routers : DetachRouter(r)
    \/ \E path \in RequestPaths, m \in RequestMethods : HandleStart(path, m)
    \/ CallListener
    \/ CheckPreCondition
    \/ \E v \in HandlerReturns : HandlerReturn(v)
    \/ CallRouter
    \/ ReturnUnhandled
    \/ RequestEnd

Spec == Init /\ [][Next]_vars

\* ------------------------------------------------------------------------
\* Path patterns: one listener, on the root or on a sub-router created with
\* createRouter('/api'), and requests dispatched to it
\* ------------------------------------------------------------------------

MaxPatternListeners == 1

Api == <<"/", "a", "p", "i">>

Users == <<"/", "u", "s", "e", "r", "s">>

Files == <<"/", "f", "i", "l", "e", "s">>

PatternRouterPaths == {Api}

\* 'x', '/x', 'x/b', '/users/:id', '/files/*', and the patterns that end in
\* '/': '' (a handler registered without a path) and 'x/'
PatternRoutePaths ==
    {<<"x">>, <<"/", "x">>, <<"x", "/", "b">>,
     Users \o <<"/", ":", "i", "d">>,
     Files \o <<"/", "*">>,
     <<>>, <<"x", "/">>}

\* The values a request supplies for a parameter segment: '42', '4'.
ParamValues == {<<"4", "2">>, <<"4">>}

\* What a request puts after '/files/': 'a', 'a/b/c', ''.
Remainders == {<<"a">>, <<"a", "/", "b", "/", "c">>, <<>>}

PatternRequestPaths ==
    {<<"/", "x">>, <<"/", "x", "/", "b">>, Users, Users \o <<"/">>, Files,
     <<>>, <<"/">>, <<"/", "x", "/">>, <<"/", "x", "/", "/">>}
    \cup {Users \o <<"/">> \o v : v \in ParamValues}
    \cup {Files \o <<"/">> \o rest : rest \in Remainders}

\* Every request path above, and the same path under '/api'.
PatternRequests == PatternRequestPaths \cup {Api \o p : p \in PatternRequestPaths}

PatternNext ==
    \/ \E r \in Routers, path \in PatternRoutePaths :
          phase = "idle" /\ Len(listeners) < MaxPatternListeners /\ Any(r, path)
    \/ \E r \in Routers, m \in AddMethods, path \in PatternRoutePaths :
          phase = "idle" /\ Len(listeners) < MaxPatternListeners /\ Add(r, m, path)
    \/ \E path \in PatternRouterPaths :
          phase = "idle" /\ CreateRouter(1, path)
    \/ \E path \in PatternRequests, m \in RequestMethods : HandleStart(path, m)
    \/ CallListener
    \/ CheckPreCondition
    \/ \E v \in HandlerReturns : HandlerReturn(v)
    \/ CallRouter
    \/ ReturnUnhandled
    \/ RequestEnd

PatternSpec == Init /\ [][PatternNext]_vars

\* ------------------------------------------------------------------------
\* The prefixes of routers
\* ------------------------------------------------------------------------

\* Inputs: the prefix handed to createApp (its basePath) and the paths handed
\* to createRouter: '', '/', 'a', '/a', 'a/', '/a/', 'ab', '/ab', 'ab/',
\* '/ab/', '//', 'a/b', 'b', '/b/'
GivenPrefixes ==
    {<<>>, <<"/">>, <<"a">>, <<"/", "a">>, <<"a", "/">>, <<"/", "a", "/">>,
     <<"a", "b">>, <<"/", "a", "b">>, <<"a", "b", "/">>, <<"/", "a", "b", "/">>,
     <<"/", "/">>, <<"a", "/", "b">>, <<"b">>, <<"/", "b", "/">>}

\* createApp(basePath): the root is RouterContext.create(basePath, extensions).
PrefixInit ==
    /\ \E basePath \in GivenPrefixes :
          /\ prefixes = <<basePath>>
          /\ prefixPaths = <<PrefixPath(basePath)>>
    /\ parents = <<0>>
    /\ handlers = << <<>> >>
    /\ listeners = <<>>
    /\ lastDetach = NoTarget
    /\ stack = <<>>
    /\ ctx = NoContext
    /\ phase = "idle"
    /\ current = NoCurrent
    /\ result = NoResult
    /\ log = <<>>
    /\ handlerCalls = <<>>
    /\ midOps = 0
    /\ app = CreateApp
    /\ installs = <<>>
    /\ decorations = <<>>
    /\ routerFields = <<>>
    /\ request = NoRequest

PrefixNext ==
    \E r \in Routers, path \in GivenPrefixes : CreateRouter(r, path)

PrefixSpec == PrefixInit /\ [][PrefixNext]_vars

\* ------------------------------------------------------------------------
\* Parameter names and the characters of literal segments
\* ------------------------------------------------------------------------

MaxSegmentListeners == 1

\* ':', 'x/:', ':4' and ':a>b' (parameter segments whose name is not an
\* identifier), ':id', and the literal paths 'a.b' and 'ab'
SegmentRoutePaths ==
    {<<":">>, <<"x", "/", ":">>, <<":", "4">>, <<":", "a", ">", "b">>,
     <<":", "i", "d">>, <<"a", ".", "b">>, <<"a", "b">>}

\* '/4', '/x/4', '/b>4', '/a.b', '/axb', '/ab'
SegmentRequestPaths ==
    {<<"/", "4">>, <<"/", "x", "/", "4">>, <<"/", "b", ">", "4">>,
     <<"/", "a", ".", "b">>, <<"/", "a", "x", "b">>, <<"/", "a", "b">>}

\* Every request path above, and the same path under '/api'.
SegmentRequests == SegmentRequestPaths \cup {Api \o p : p \in SegmentRequestPaths}

SegmentNext ==
    \/ \E r \in Routers, path \in SegmentRoutePaths :
          phase = "idle" /\ Len(listeners) < MaxSegmentListeners /\ Any(r, path)
    \/ \E path \in PatternRouterPaths :
          phase = "idle" /\ CreateRouter(1, path)
    \/ \E path \in SegmentRequests : HandleStart(path, "GET")
    \/ CallListener
    \/ \E v \in HandlerReturns : HandlerReturn(v)
    \/ CallRouter
    \/ ReturnUnhandled
    \/ RequestEnd

SegmentSpec == Init /\ [][SegmentNext]_vars

\* ------------------------------------------------------------------------
\* One listener on the root: its method, its preconditions, its handler
\* ------------------------------------------------------------------------

MaxMethodListeners == 1

MaxPreConditions == 3

\* Methods handed to add(), and the methods of requests.
ListenerAddMethods == {"get", "Get", "post"}

ListenerRequestMethods == {"GET", "POST", "get"}

ListenerRoutePaths == {<<"x">>}

ListenerRequestPaths == {<<"/", "x">>, <<"/", "b">>}

\* The predicates handed to addPreCondition: ctx => ctx.method === m
PreConditionMethods == {"GET", "POST"}

\* The functions handed to replaceHandler.
RouteHandlers == {"h1", "h2"}

\* What a route handler returns: undefined, a string, bytes, the empty string.
ListenerHandlerReturns == {"undefined", "text", "bytes", ""}

ListenerNext ==
    \/ \E path \in ListenerRoutePaths :
          phase = "idle" /\ Len(listeners) < MaxMethodListeners /\ Any(1, path)
    \/ \E m \in ListenerAddMethods, path \in ListenerRoutePaths :
          phase = "idle" /\ Len(listeners) < MaxMethodListeners /\ Add(1, m, path)
    \/ \E path \in ListenerRoutePaths :
          phase = "idle" /\ Len(listeners) < MaxMethodListeners /\ Get(1, path)
    \/ \E l \in Listeners, pred \in PreConditionMethods :
          /\ phase = "idle"
          /\ Len(listeners[l].preConditions) < MaxPreConditions
          /\ AddPreCondition(l, pred)
    \/ \E l \in Listeners, h \in RouteHandlers : ReplaceHandler(l, h)
    \/ \E path \in ListenerRequestPaths, m \in ListenerRequestMethods : HandleStart(path, m)
    \/ CallListener
    \/ CheckPreCondition
    \/ \E v \in ListenerHandlerReturns : HandlerReturn(v)
    \/ ReturnUnhandled
    \/ RequestEnd

ListenerSpec == Init /\ [][ListenerNext]_vars

\* ------------------------------------------------------------------------
\* MessageContext: content negotiation and redirects
\* ------------------------------------------------------------------------
\* A mime type, a header name or value is a sequence of tokens in which '/'
\* is a token of its own: 'text/html' is <<"text", "/", "html">>.

\* const mimeTypeShorthands
ShorthandNames == {"json", "html", "css", "js", "javascript", "svg", "png", "jpeg", "jpg"}

MimeTypeShorthands(name) ==
    CASE name = "json" -> <<"application", "/", "json">>
      [] name = "html" -> <<"text", "/", "html">>
      [] name = "css" -> <<"text", "/", "css">>
      [] name \in {"js", "javascript"} -> <<"text", "/", "javascript">>
      [] name = "svg" -> <<"image", "/", "svg+xml">>
      [] name = "png" -> <<"image", "/", "png">>
      [] name \in {"jpeg", "jpg"} -> <<"image", "/", "jpeg">>

\* it in mimeTypeShorthands
IsShorthand(it) == Len(it) = 1 /\ it[1] \in ShorthandNames

\* One element of resolvedTypes: the candidate's mime type split at '/'.
ResolvedType(it) ==
    IF IsShorthand(it) THEN Split(MimeTypeShorthands(it[1])) ELSE Split(it)

\* The second element of a destructured split, undefined when there is none.
Second(parts) == IF Len(parts) >= 2 THEN parts[2] ELSE <<"undefined">>

\* Quality values are counted in tenths; an item without q has q: 1.
DefaultQ == 10

\* calc(): one entry per item of the header, { mimeType, q: 1, ...params }
Entry(item) ==
    [mimeType |-> item.mimeType, q |-> IF item.hasQ THEN item.q ELSE DefaultQ]

RECURSIVE InsertBeforeEqual(_, _)
InsertBeforeEqual(sorted, e) ==
    IF Len(sorted) = 0 THEN <<e>>
    ELSE IF sorted[1].q > e.q THEN <<sorted[1]>> \o InsertBeforeEqual(Tail(sorted), e)
    ELSE <<e>> \o sorted

\* e placed in the sorted entries after every entry whose q is not smaller.
RECURSIVE Insert(_, _)
Insert(sorted, e) ==
    IF Len(sorted) = 0 THEN <<e>>
    ELSE IF sorted[1].q >= e.q THEN <<sorted[1]>> \o Insert(Tail(sorted), e)
    ELSE <<e>> \o sorted

RECURSIVE SortFrom(_, _, _)
SortFrom(entries, i, sorted) ==
    IF i > Len(entries) THEN sorted
    ELSE SortFrom(entries, i + 1, Insert(sorted, entries[i]))

KeepOrder(entries) == entries

\* .sort((a, b) => b.q - a.q): by descending q, entries of equal q in the
\* order of the header (the sort is stable).
SortByQ(entries) == SortFrom(entries, 1, <<>>)

Calc(accept) == SortByQ([k \in DOMAIN accept |-> Entry(accept[k])])

\* The inner loop of accepts: the index of the first candidate, from j on,
\* the accept entry selects, or 0.
RECURSIVE FirstSelected(_, _, _)
FirstSelected(acceptParts, types, j) ==
    IF j > Len(types) THEN 0
    ELSE LET type == ResolvedType(types[j])
         IN  IF acceptParts[1] # type[1] THEN FirstSelected(acceptParts, types, j + 1)
             ELSE IF Second(acceptParts) = <<"*">> THEN j
             ELSE IF Second(acceptParts) = Second(type) THEN j
             ELSE FirstSelected(acceptParts, types, j + 1)

NotAccepted == [found |-> FALSE, value |-> <<>>]

Selected(type) == [found |-> TRUE, value |-> type]

\* The outer loop of accepts, from entry i on.
RECURSIVE AcceptsFrom(_, _, _)
AcceptsFrom(entries, i, types) ==
    IF i > Len(entries) THEN NotAccepted
    ELSE IF entries[i].mimeType = <<"*", "/", "*">> THEN Selected(types[1])
    ELSE LET j == FirstSelected(Split(entries[i].mimeType), types, 1)
         IN  IF j # 0 THEN Selected(types[j])
             ELSE AcceptsFrom(entries, i + 1, types)

\* ctx.accepts(...types)
Accepts(context, types) ==
    IF Len(types) = 0 THEN NotAccepted
    ELSE AcceptsFrom(Calc(context.accept), 1, types)

AllKeys(keys) == keys

\* accepting: keys.splice(keys.indexOf('else'), 1)
NonElseKeys(keys) == SpliceCount(keys, IndexOf(keys, <<"else">>), 1)

\* ctx.accepting(obj), obj given by its own keys in order: the outcome is
\* whether it threw and the keys of the handlers it invoked.
Accepting(context, keys) ==
    IF IndexOf(keys, <<"else">>) = -1
    THEN [thrown |-> TRUE, invoked |-> <<>>]
    ELSE LET rest == NonElseKeys(keys)
             res == IF Len(rest) > 0 THEN Accepts(context, rest) ELSE NotAccepted
         IN  [thrown |-> FALSE,
              invoked |-> IF res.found THEN <<res.value>> ELSE << <<"else">> >>]

\* String.prototype.toLowerCase on the header names the model uses.
ToLowerCase(name) ==
    CASE name = "Location" -> "location"
      [] name = "Content-Type" -> "content-type"
      [] name = "X-Trace" -> "x-trace"
      [] name = "Content-Length" -> "content-length"
      [] name = "Set-Cookie" -> "set-cookie"
      [] OTHER -> name

\* Headers.set(name, value) for one string value.
HeadersSet(headers, name, value) ==
    [n \in DOMAIN headers \cup {ToLowerCase(name)} |->
        IF n = ToLowerCase(name) THEN <<value>> ELSE headers[n]]

\* ctx.setHeader(name, value): a shorthand given as content type is expanded.
SetHeader(context, name, value) ==
    [context EXCEPT !.responseHeaders =
        HeadersSet(@, name,
                   IF ToLowerCase(name) = "content-type" /\ IsShorthand(value)
                   THEN MimeTypeShorthands(value[1])
                   ELSE value)]

RedirectStatusPostOnly(method, status) ==
    IF method = "POST" THEN 303 ELSE status

\* ctx.method === 'PUT' || ctx.method === 'POST' ? 303 : status
RedirectStatus(method, status) ==
    IF method = "PUT" \/ method = "POST" THEN 303 ELSE status

\* The status each redirect function uses for a method other than PUT, POST.
RedirectCode(op) ==
    CASE op = "redirect" -> 307
      [] op = "redirectPermanent" -> 308
      [] op = "redirectPermanentCompat" -> 301

\* ctx.redirect / redirectPermanent / redirectPermanentCompat (location)
Redirect(context, op, location) ==
    SetHeader([context EXCEPT !.status = RedirectStatus(context.method, RedirectCode(op))],
              "Location", location)

\* Inputs: request methods, accept headers, candidate lists, the keys of the
\* objects handed to accepting, redirect locations.
MessageMethods == {"GET", "POST", "PUT", "DELETE"}

Item(mimeType, q) == [mimeType |-> mimeType, hasQ |-> TRUE, q |-> q]

PlainItem(mimeType) == [mimeType |-> mimeType, hasQ |-> FALSE, q |-> 0]

Json == <<"application", "/", "json">>

Html == <<"text", "/", "html">>

TextPlain == <<"text", "/", "plain">>

TextAny == <<"text", "/", "*">>

AnyType == <<"*", "/", "*">>

\* none; 'text/html;q=0.8, application/json;q=0.9'; '*/*'; 'text/plain';
\* 'text/*;q=0.5, application/json;q=0.5'; 'text/plain, */*;q=0.1';
\* 'application/json;q=0.2, text/*'; 'image/png, text/html'
AcceptHeaders ==
    {NoAcceptHeader,
     <<Item(Html, 8), Item(Json, 9)>>,
     <<PlainItem(AnyType)>>,
     <<PlainItem(TextPlain)>>,
     <<Item(TextAny, 5), Item(Json, 5)>>,
     <<PlainItem(TextPlain), Item(AnyType, 1)>>,
     <<Item(Json, 2), PlainItem(TextAny)>>,
     <<PlainItem(<<"image", "/", "png">>), PlainItem(Html)>>}

CandidateLists ==
    {<<>>, << <<"json">>, <<"html">> >>, << <<"html">>, <<"json">> >>,
     << <<"html">> >>, << TextPlain >>, << <<"png">>, TextPlain, <<"json">> >>}

KeyLists ==
    {<< <<"json">>, <<"html">> >>,
     << <<"else">> >>,
     << <<"json">>, <<"html">>, <<"else">> >>,
     << <<"else">>, <<"html">>, <<"json">> >>,
     << <<"html">>, <<"else">>, TextPlain >>}

Locations == {<<"/", "login">>, <<"json">>}

RedirectOps == {"redirect", "redirectPermanent", "redirectPermanentCompat"}

\* A message context has been created for a request; no router is involved.
MessageInit ==
    /\ prefixPaths = <<PrefixPath(<<"/">>)>>
    /\ prefixes = << <<"/">> >>
    /\ parents = <<0>>
    /\ handlers = << <<>> >>
    /\ listeners = <<>>
    /\ lastDetach = NoTarget
    /\ stack = <<>>
    /\ ctx \in {MessageContextCreate(<<"/">>, m, a) : m \in MessageMethods, a \in AcceptHeaders}
    /\ phase = "idle"
    /\ current = NoCurrent
    /\ result = NoResult
    /\ log = <<>>
    /\ handlerCalls = <<>>
    /\ midOps = 0
    /\ app = CreateApp
    /\ installs = <<>>
    /\ decorations = <<>>
    /\ routerFields = <<>>
    /\ request = NoRequest

routerVars == <<prefixPaths, prefixes, parents, handlers, listeners, lastDetach,
                stack, phase, current, result, log, handlerCalls, midOps>>

\* ctx.accepts(...types) is called.
AcceptsCall(types) ==
    /\ ctx' = [ctx EXCEPT !.call =
                  [op |-> "accepts", arg |-> types,
                   ret |-> LET res == Accepts(ctx, types)
                           IN  IF res.found THEN <<res.value>> ELSE <<>>,
                   thrown |-> FALSE]]
    /\ UNCHANGED routerVars
    /\ UNCHANGED <<appVars, decorationVars, request>>

\* ctx.accepting(obj) is called.
AcceptingCall(keys) ==
    /\ ctx' = [ctx EXCEPT !.call =
                  [op |-> "accepting", arg |-> keys,
                   ret |-> Accepting(ctx, keys).invoked,
                   thrown |-> Accepting(ctx, keys).thrown]]
    /\ UNCHANGED routerVars
    /\ UNCHANGED <<appVars, decorationVars, request>>

\* One of the redirect functions is called.
RedirectCall(op, location) ==
    /\ ctx' = [Redirect(ctx, op, location) EXCEPT !.call =
                  [op |-> op, arg |-> location, ret |-> <<>>, thrown |-> FALSE]]
    /\ UNCHANGED routerVars
    /\ UNCHANGED <<appVars, decorationVars, request>>

MessageNext ==
    \/ \E types \in CandidateLists : AcceptsCall(types)
    \/ \E keys \in KeyLists : AcceptingCall(keys)
    \/ \E op \in RedirectOps, location \in Locations : RedirectCall(op, location)

MessageSpec == MessageInit /\ [][MessageNext]_vars

\* ------------------------------------------------------------------------
\* Preconditions and handlers that throw
\* ------------------------------------------------------------------------

\* ctx.status(status)
StatusKept(context, status) == context

Status(context, status) == [context EXCEPT !.status = status]

\* The running route handler sets the response status and a header.
HandlerSets(status, name, value) ==
    /\ phase = "handler"
    /\ ctx.responseHeaders = <<>>
    /\ ctx' = SetHeader(Status(ctx, status), name, value)
    /\ lastDetach' = NoTarget
    /\ UNCHANGED <<appVars, decorationVars, request>>
    /\ UNCHANGED <<stack, phase, current, result, log, handlerCalls, midOps, treeVars>>

MaxFailureListeners == 2

MaxFailurePreConditions == 2

FailureRequestPaths == {<<"/", "x">>, <<"/", "a", "/", "x">>}

\* The predicates handed to addPreCondition: ctx => ctx.method === 'GET', and
\* the throwing ones.
FailurePreConditions == {"GET"} \cup ThrowingPreConditions

\* What a route handler throws.
HandlerFailures == {"Error"}

FailureHandlerReturns == {"undefined", "text"}

\* The tree is built while no request is processed; requests then meet
\* preconditions and handlers that throw.
FailureNext ==
    \/ \E r \in Routers, path \in ListenerRoutePaths :
          phase = "idle" /\ Len(listeners) < MaxFailureListeners /\ Any(r, path)
    \/ \E r \in Routers, path \in RouterPaths : phase = "idle" /\ CreateRouter(r, path)
    \/ \E l \in Listeners, pred \in FailurePreConditions :
          /\ phase = "idle"
          /\ Len(listeners[l].preConditions) < MaxFailurePreConditions
          /\ AddPreCondition(l, pred)
    \/ \E path \in FailureRequestPaths, m \in RequestMethods : HandleStart(path, m)
    \/ CallListener
    \/ CheckPreCondition
    \/ PreConditionThrows
    \/ HandlerSets(201, "X-Trace", <<"on">>)
    \/ \E v \in FailureHandlerReturns : HandlerReturn(v)
    \/ \E failure \in HandlerFailures : HandlerThrows(failure)
    \/ CallRouter
    \/ ReturnUnhandled
    \/ RequestEnd

FailureSpec == Init /\ [][FailureNext]_vars

\* ------------------------------------------------------------------------
\* Extensions: app.install and the decoration of the application
\* ------------------------------------------------------------------------

\* The number of app.install calls made on the application.
MaxInstalls == 2

installFrame == <<prefixPaths, prefixes, parents, handlers, listeners, lastDetach, stack,
                  ctx, phase, current, result, log, handlerCalls, midOps,
                  decorations, routerFields, request>>

\* What install can be handed: a ready factory, a module object whose
\* default export is the factory, or a promise of either.
ModuleOf(factory) == [default |-> factory]

PromiseOf(value) == [promise |-> value]

\* await value
Await(value) == IF "promise" \in DOMAIN value THEN value.promise ELSE value

\* isExtensionFactory(obj): obj.name is a string and
\* obj.createExtensionInstance a function.
IsExtensionFactory(obj) == "name" \in DOMAIN obj

\* isExtensionFactory(factoryParam) ? factoryParam : factoryParam.default
ExtensionFactoryOf(factoryParam) ==
    IF IsExtensionFactory(factoryParam) THEN factoryParam ELSE factoryParam.default

\* extensionFactory.createExtensionInstance(setup): a new extension object,
\* told apart from every other instance by the install that made it.
CreateExtensionInstance(factory, i) ==
    [name |-> factory.name,
     decorateRouterContext |-> factory.decorateRouterContext,
     decorateApplication |-> factory.decorateApplication,
     decorateMessageContext |-> factory.decorateMessageContext,
     onIncomingMessage |-> factory.onIncomingMessage,
     onMessage |-> factory.onMessage,
     onMessageHandled |-> factory.onMessageHandled,
     instance |-> i]

\* Inputs: what is handed to install.
FactoryParams ==
    UNION {{factory, ModuleOf(factory), PromiseOf(factory), PromiseOf(ModuleOf(factory))} :
              factory \in ExtensionFactories}

\* The extension of an install that has not made its instance yet.
NoExtension == [name |-> "none", decorateRouterContext |-> NoHook,
                decorateApplication |-> NoHook, decorateMessageContext |-> NoHook,
                onIncomingMessage |-> NoHook, onMessage |-> NoHook,
                onMessageHandled |-> NoHook, instance |-> 0]

\* app.install(factory) is called; it stops at 'await factory'.
Install(factory) ==
    /\ Len(installs) < MaxInstalls
    /\ installs' = Append(installs,
                          [factory |-> factory, extension |-> NoExtension, at |-> "factory"])
    /\ UNCHANGED <<app, installFrame>>

\* 'await factory' for a factory that is not a promise resumes install in
\* the order of the calls; a promise of a factory resolves at any time.
IsPromise(value) == "promise" \in DOMAIN value

FactoryMayResolve(i) ==
    ~IsPromise(installs[i].factory)
        => \A j \in 1..(i - 1) :
               ~IsPromise(installs[j].factory) => installs[j].at # "factory"

\* The factory of install i has resolved: the extension instance is created
\* and pushed, and install stops at 'await decorateRouterContext'.
FactoryResolved(i) ==
    LET extension ==
            CreateExtensionInstance(ExtensionFactoryOf(Await(installs[i].factory)), i)
    IN  /\ installs[i].at = "factory"
        /\ FactoryMayResolve(i)
        /\ app' = [app EXCEPT !.extensions = Append(@, extension)]
        /\ installs' = [installs EXCEPT ![i].extension = extension,
                                        ![i].at = "decorateRouterContext"]
        /\ UNCHANGED installFrame

\* The decorateRouterContext hooks of the extension of install i have
\* resolved: what they returned is assigned to the application, which is the
\* root router context, and install stops at 'await decorateApplication'.
RouterContextDecorated(i) ==
    /\ installs[i].at = "decorateRouterContext"
    /\ app' = [app EXCEPT !.fields =
                  Decorate(@, <<installs[i].extension>>, "decorateRouterContext")]
    /\ installs' = [installs EXCEPT ![i].at = "decorateApplication"]
    /\ UNCHANGED installFrame

\* The decorateApplication hook of the extension of install i has resolved:
\* what it returned is assigned to the application and install completes.
ApplicationDecorated(i) ==
    /\ installs[i].at = "decorateApplication"
    /\ app' = [app EXCEPT !.fields =
                  Decorate(@, <<installs[i].extension>>, "decorateApplication")]
    /\ installs' = [installs EXCEPT ![i].at = "completed"]
    /\ UNCHANGED installFrame

InstallNext ==
    \/ \E factory \in FactoryParams : Install(factory)
    \/ \E i \in DOMAIN installs : FactoryResolved(i)
    \/ \E i \in DOMAIN installs : RouterContextDecorated(i)
    \/ \E i \in DOMAIN installs : ApplicationDecorated(i)

InstallSpec == Init /\ [][InstallNext]_vars

\* ------------------------------------------------------------------------
\* The decoration of routers made by createRouter
\* ------------------------------------------------------------------------

\* The fields the extensions of a completed install have merged onto the
\* application.
RECURSIVE InstalledFields(_, _)
InstalledFields(fields, extensions) ==
    IF Len(extensions) = 0 THEN fields
    ELSE InstalledFields(
             Decorate(Decorate(fields, <<extensions[1]>>, "decorateRouterContext"),
                      <<extensions[1]>>, "decorateApplication"),
             Tail(extensions))

\* Inputs: the extensions installed, one install after the other, before the
\* application makes its routers.
InstalledExtensions ==
    {<<a>> : a \in ExtensionFactories}
        \cup {<<a, b>> : a, b \in ExtensionFactories}

DecorateInit ==
    /\ prefixPaths = <<PrefixPath(<<"/">>)>>
    /\ prefixes = << <<"/">> >>
    /\ parents = <<0>>
    /\ handlers = << <<>> >>
    /\ listeners = <<>>
    /\ lastDetach = NoTarget
    /\ stack = <<>>
    /\ ctx = NoContext
    /\ phase = "idle"
    /\ current = NoCurrent
    /\ result = NoResult
    /\ log = <<>>
    /\ handlerCalls = <<>>
    /\ midOps = 0
    /\ \E extensions \in InstalledExtensions :
          /\ app = [extensions |-> [i \in DOMAIN extensions |->
                                       CreateExtensionInstance(extensions[i], i)],
                    fields |-> InstalledFields(<<>>, extensions),
                    onError |-> "none", onUnhandled |-> "none"]
          /\ installs = [i \in DOMAIN extensions |->
                            [factory |-> extensions[i],
                             extension |-> CreateExtensionInstance(extensions[i], i),
                             at |-> "completed"]]
    /\ decorations = <<>>
    /\ routerFields = <<>>
    /\ request = NoRequest

decorationFrame == <<prefixPaths, prefixes, parents, handlers, listeners, lastDetach, stack,
                     phase, current, result, log, handlerCalls, midOps, app, installs,
                     request>>

\* The promise returned by the hook of extension k, called in the given pass
\* of decoration t, settles.
HookSettles(t, pass, k) ==
    /\ k \in PendingHooks(decorations[t], pass)
    /\ decorations' = [decorations EXCEPT
                          ![t].events = Append(@, HookEvent(pass, k, "settled"))]
    /\ UNCHANGED <<decorationFrame, ctx, routerFields>>

\* 'await doLifecycle' of decoration t is over: execFunctionOnArray calls the
\* hooks a second time and the function stops at awaiting their results.
LifecycleCompleted(t) ==
    /\ decorations[t].at = "doLifecycle"
    /\ LifecycleAwaited(decorations[t])
    /\ decorations' = [decorations EXCEPT
                          ![t].at = "execFunctionOnArray",
                          ![t].events = @ \o CallHooks(decorations[t].extensions,
                                                       decorations[t].functionName, 2)]
    /\ UNCHANGED <<decorationFrame, ctx, routerFields>>

\* The results of the second pass of decoration t are there:
\* Object.assign(target, ...results.filter(Boolean)).
DecorationCompleted(t) ==
    /\ decorations[t].at = "execFunctionOnArray"
    /\ PendingHooks(decorations[t], 2) = {}
    /\ decorations' = [decorations EXCEPT
                          ![t].at = "merged",
                          ![t].events = Append(@, HookEvent(2, 0, "merged"))]
    /\ IF decorations[t].target.kind = "router"
       THEN /\ routerFields' =
                  [r \in DOMAIN routerFields \cup {decorations[t].target.id} |->
                      IF r = decorations[t].target.id
                      THEN Decorate(RouterFields(routerFields, r),
                                    decorations[t].extensions,
                                    decorations[t].functionName)
                      ELSE routerFields[r]]
            /\ UNCHANGED ctx
       ELSE /\ ctx' = [ctx EXCEPT !.fields =
                          Decorate(@, decorations[t].extensions,
                                   decorations[t].functionName)]
            /\ UNCHANGED routerFields
    /\ UNCHANGED decorationFrame

DecorateNext ==
    \/ \E r \in Routers, path \in RouterPaths : CreateRouter(r, path)
    \/ \E t \in DOMAIN decorations, pass \in {1, 2} :
          \E k \in DOMAIN decorations[t].extensions : HookSettles(t, pass, k)
    \/ \E t \in DOMAIN decorations : LifecycleCompleted(t)
    \/ \E t \in DOMAIN decorations : DecorationCompleted(t)

DecorateSpec == DecorateInit /\ [][DecorateNext]_vars

\* ------------------------------------------------------------------------
\* handlerFunction: a request from its arrival to onMessageHandled
\* ------------------------------------------------------------------------

MaxRequestListeners == 1

\* Inputs: the extensions installed when the server listens, what the
\* handlers given to app.onError and app.onUnhandled return ("none": no
\* handler was given), the requests, what a route handler returns.
Factory(name) == CHOOSE f \in ExtensionFactories : f.name = name

RequestExtensions ==
    {<<Factory("log")>>, <<Factory("tmpl"), Factory("ws")>>,
     <<Factory("auth"), Factory("log")>>}

ErrorHandlers == {"none", "undefined", "text"}

HandlerRequestPaths == {<<"/", "x">>, <<"/", "b">>}

RequestAcceptHeaders == {NoAcceptHeader, <<PlainItem(Json)>>}

RequestHandlerReturns == {"undefined", "text", "bytes", "stream"}

\* handleResult.result instanceof Uint8Array
IsUint8Array(v) == v = "bytes"

\* typeof handleResult.result === 'string'
IsString(v) == v \in {"text", ""}

RequestInit ==
    /\ prefixPaths = <<PrefixPath(<<"/">>)>>
    /\ prefixes = << <<"/">> >>
    /\ parents = <<0>>
    /\ handlers = << <<>> >>
    /\ listeners = <<>>
    /\ lastDetach = NoTarget
    /\ stack = <<>>
    /\ ctx = NoContext
    /\ phase = "idle"
    /\ current = NoCurrent
    /\ result = NoResult
    /\ log = <<>>
    /\ handlerCalls = <<>>
    /\ midOps = 0
    /\ \E extensions \in RequestExtensions, onError, onUnhandled \in ErrorHandlers :
          /\ app = [extensions |-> [i \in DOMAIN extensions |->
                                       CreateExtensionInstance(extensions[i], i)],
                    fields |-> InstalledFields(<<>>, extensions),
                    onError |-> onError, onUnhandled |-> onUnhandled]
          /\ installs = [i \in DOMAIN extensions |->
                            [factory |-> extensions[i],
                             extension |-> CreateExtensionInstance(extensions[i], i),
                             at |-> "completed"]]
    /\ decorations = <<>>
    /\ routerFields = <<>>
    /\ request = NoRequest

\* What was done to res, in the sequence of the request's events.
ResponseEvent(ev) == HookEvent("res", 0, ev)

\* doLifecycle(extensions, functionName, ...): every hook is called, and
\* handlerFunction stops at the await of them all.
CallLifecycle(req, functionName) ==
    [req EXCEPT !.at = functionName,
                !.extensions = app.extensions,
                !.events = @ \o CallHooks(app.extensions, functionName, functionName)]

\* Headers.has(name)
HeadersHas(headers, name) == ToLowerCase(name) \in DOMAIN headers

\* buffer.byteLength, as a header value
ByteLength(buffer) == <<"byteLength", buffer>>

\* res.writeHead(message.status(), headers.toJSON())
WriteHead(res, context) ==
    [res EXCEPT !.headWritten = TRUE, !.status = context.status,
                !.headers = context.responseHeaders]

\* res.end(buffer)
End(res, buffer) == [res EXCEPT !.body = buffer, !.ended = TRUE]

RespondTwice(req, context, mimeType, buffer) ==
    [context |-> context,
     request |-> [req EXCEPT
                     !.res = End(WriteHead(WriteHead(@, context), context), buffer),
                     !.events = @ \o <<ResponseEvent("writeHead"),
                                       ResponseEvent("writeHead"),
                                       ResponseEvent("end")>>]]

\* respond(mimeType, buffer): the request and the context after it.
Respond(req, context, mimeType, buffer) ==
    LET h1 == IF HeadersHas(context.responseHeaders, "Content-Type")
              THEN context.responseHeaders
              ELSE HeadersSet(context.responseHeaders, "Content-Type", mimeType)
        h2 == IF HeadersHas(h1, "Content-Length")
              THEN h1
              ELSE HeadersSet(h1, "Content-Length", ByteLength(buffer))
        c == [context EXCEPT !.responseHeaders = h2]
    IN  [context |-> c,
         request |-> [req EXCEPT
                         !.res = End(WriteHead(@, c), buffer),
                         !.events = @ \o <<ResponseEvent("writeHead"),
                                           ResponseEvent("end")>>]]

Utf8 == <<";", "charset=UTF-8">>

\* The object handed to accepting by the default 404 and 500 responses.
DefaultKeys == << <<"html">>, <<"json">>, <<"else">> >>

\* The content type each of its handlers responds with.
DefaultMimeType(key) ==
    CASE key = <<"html">> -> Html \o Utf8
      [] key = <<"json">> -> Json \o Utf8
      [] OTHER -> TextPlain \o Utf8

\* message.status(status).accepting({html, json, else}) of the default
\* responses: the handler invoked responds with a page for the status.
DefaultResponse(req, context, status) ==
    LET c == Status(context, status)
        key == Accepting(c, DefaultKeys).invoked[1]
    IN  Respond(req, c, DefaultMimeType(key), <<"page", status, key>>)

\* The end of handlerFunction up to its last await: the response for
\* handleResult.
WriteResult(req, context, handleResult) ==
    CASE handleResult.type = "RESULT" ->
            IF IsUint8Array(handleResult.result)
            THEN Respond(req, context, <<"application", "/", "octet-stream">>,
                         handleResult.result)
            ELSE IF IsString(handleResult.result)
            THEN Respond(req, context, TextPlain \o Utf8, handleResult.result)
            ELSE [context |-> context,
                  request |-> [req EXCEPT
                                  !.res = WriteHead(@, context),
                                  !.piping = TRUE,
                                  !.events = @ \o <<ResponseEvent("writeHead"),
                                                    ResponseEvent("pipe")>>]]
      [] handleResult.type = "UNHANDLED" -> DefaultResponse(req, context, 404)
      [] OTHER ->
            IF ~context.externallyHandled
            THEN [context |-> context,
                  request |-> [req EXCEPT
                                  !.res = End(WriteHead(@, context), ""),
                                  !.events = @ \o <<ResponseEvent("writeHead"),
                                                    ResponseEvent("end")>>]]
            ELSE [context |-> context, request |-> req]

requestFrame == <<prefixPaths, prefixes, parents, handlers, listeners, lastDetach, app,
                  installs, routerFields>>

handleFrame == <<stack, phase, current, result, log, handlerCalls, midOps>>

\* The server hands a request to handlerFunction:
\* await doLifecycle(extensions, 'onIncomingMessage', app).
RequestArrives(path, method, accept) ==
    /\ request.at = "none"
    /\ phase = "idle"
    /\ request' = CallLifecycle([NoRequest EXCEPT
                                    !.req = IncomingMessage(path, method, accept)],
                                "onIncomingMessage")
    /\ UNCHANGED <<requestFrame, handleFrame, ctx, decorations>>

\* The promise returned by a lifecycle hook of extension k settles.
LifecycleHookSettles(k) ==
    /\ request.at \in {"onIncomingMessage", "onMessage", "onMessageHandled"}
    /\ k \in PendingHooks(request, request.at)
    /\ request' = [request EXCEPT
                      !.events = Append(@, HookEvent(request.at, k, "settled"))]
    /\ UNCHANGED <<requestFrame, handleFrame, ctx, decorations>>

\* const message = MessageContext.create(req, res, headers);
\* await decorateMessageContext(message, ...extensions)
IncomingMessageCompleted ==
    /\ request.at = "onIncomingMessage"
    /\ PendingHooks(request, "onIncomingMessage") = {}
    /\ ctx' = MessageContextCreate(request.req.path, request.req.method,
                                   request.req.accept)
    /\ decorations' = Append(decorations,
                             DecorateCall(MessageTarget, app.extensions,
                                          "decorateMessageContext"))
    /\ request' = [request EXCEPT !.at = "decorateMessageContext",
                                  !.task = Len(decorations) + 1,
                                  !.events = Append(@, HookEvent("decorateMessageContext",
                                                                 0, "called"))]
    /\ UNCHANGED <<requestFrame, handleFrame>>

\* await doLifecycle(extensions, 'onMessage', message, app)
MessageContextDecorated ==
    /\ request.at = "decorateMessageContext"
    /\ decorations[request.task].at = "merged"
    /\ request' = CallLifecycle(
                      [request EXCEPT
                          !.events = Append(@, HookEvent("decorateMessageContext",
                                                         0, "settled"))],
                      "onMessage")
    /\ UNCHANGED <<requestFrame, handleFrame, ctx, decorations>>

\* handleResult = await app.handle(message)
OnMessageCompleted ==
    /\ request.at = "onMessage"
    /\ PendingHooks(request, "onMessage") = {}
    /\ request' = [request EXCEPT !.at = "handle",
                                  !.events = Append(@, HookEvent("handle", 0, "called"))]
    /\ stack' = <<Frame(1)>>
    /\ phase' = "loop"
    /\ current' = NoCurrent
    /\ result' = NoResult
    /\ log' = <<LogEntry(0, RouterTarget(1))>>
    /\ handlerCalls' = <<>>
    /\ midOps' = 0
    /\ lastDetach' = NoTarget
    /\ UNCHANGED <<treeVars, appVars, decorationVars, ctx>>

\* ctx.setExternalyHandled(), called without a function
SetExternalyHandled(context) == [context EXCEPT !.externallyHandled = TRUE]

\* The running route handler takes the response over.
HandlerSetsExternallyHandled ==
    /\ phase = "handler"
    /\ ~ctx.externallyHandled
    /\ ctx' = SetExternalyHandled(ctx)
    /\ lastDetach' = NoTarget
    /\ UNCHANGED <<appVars, decorationVars, request>>
    /\ UNCHANGED <<stack, phase, current, result, log, handlerCalls, midOps, treeVars>>

\* The response for handleResult is written and the last hooks are called:
\* await doLifecycle(extensions, 'onMessageHandled', message, app).
WriteAndCallHandled(written, handleResult) ==
    /\ ctx' = written.context
    /\ request' = CallLifecycle([written.request EXCEPT !.handleResult = handleResult],
                                "onMessageHandled")

\* app.handle(message) has settled: with a rejection the onError handler is
\* called, or the default 500 response written; with Unhandled the
\* onUnhandled handler is called when there is one; otherwise the response
\* for the result is written.
HandleSettled ==
    /\ request.at = "handle"
    /\ phase = "done"
    /\ LET settled == [request EXCEPT
                          !.events = Append(@, HookEvent("handle", 0, "settled"))]
       IN  IF result.type = "REJECTED"
           THEN IF app.onError # "none"
                THEN /\ request' = [settled EXCEPT
                                        !.at = "onError",
                                        !.events = Append(@, HookEvent("onError", 0, "called"))]
                     /\ UNCHANGED ctx
                ELSE WriteAndCallHandled(DefaultResponse(settled, ctx, 500), result)
           ELSE IF result.type = "UNHANDLED" /\ app.onUnhandled # "none"
                THEN /\ request' = [settled EXCEPT
                                        !.at = "onUnhandled",
                                        !.events = Append(@, HookEvent("onUnhandled", 0, "called"))]
                     /\ UNCHANGED ctx
                ELSE WriteAndCallHandled(WriteResult(settled, ctx, result), result)
    /\ UNCHANGED <<requestFrame, handleFrame, decorations>>

\* The onError or onUnhandled handler returns:
\* errorRes !== undefined ? Result(errorRes) : Handled.
ErrorHandlerReturns ==
    /\ request.at \in {"onError", "onUnhandled"}
    /\ LET handleResult == HandlerResponse(app[request.at])
       IN  WriteAndCallHandled(WriteResult(request, ctx, handleResult), handleResult)
    /\ UNCHANGED <<requestFrame, handleFrame, decorations>>

\* The stream piped to res ends.
StreamEnds ==
    /\ request.piping
    /\ request' = [request EXCEPT
                      !.piping = FALSE,
                      !.res = End(@, request.handleResult.result),
                      !.events = Append(@, ResponseEvent("end"))]
    /\ UNCHANGED <<requestFrame, handleFrame, ctx, decorations>>

\* handlerFunction returns.
MessageHandledCompleted ==
    /\ request.at = "onMessageHandled"
    /\ PendingHooks(request, "onMessageHandled") = {}
    /\ request' = [request EXCEPT !.at = "finished"]
    /\ UNCHANGED <<requestFrame, handleFrame, ctx, decorations>>

\* The request is over and its objects are dropped.
RequestFinished ==
    /\ request.at = "finished"
    /\ ~request.piping
    /\ request' = NoRequest
    /\ ctx' = NoContext
    /\ decorations' = SelectSeq(decorations, LAMBDA task : task.target.kind # "message")
    /\ phase' = "idle"
    /\ result' = NoResult
    /\ log' = <<>>
    /\ handlerCalls' = <<>>
    /\ UNCHANGED <<requestFrame, stack, current, midOps>>

RequestNext ==
    \/ \E path \in ListenerRoutePaths :
          /\ request.at = "none"
          /\ Len(listeners) < MaxRequestListeners
          /\ Any(1, path)
    \/ \E path \in RouterPaths : request.at = "none" /\ CreateRouter(1, path)
    \/ \E path \in HandlerRequestPaths, accept \in RequestAcceptHeaders :
          RequestArrives(path, "GET", accept)
    \/ \E k \in DOMAIN request.extensions : LifecycleHookSettles(k)
    \/ IncomingMessageCompleted
    \/ \E t \in DOMAIN decorations, pass \in {1, 2} :
          \E k \in DOMAIN decorations[t].extensions : HookSettles(t, pass, k)
    \/ \E t \in DOMAIN decorations : LifecycleCompleted(t)
    \/ \E t \in DOMAIN decorations : DecorationCompleted(t)
    \/ MessageContextDecorated
    \/ OnMessageCompleted
    \/ CallListener
    \/ HandlerSetsExternallyHandled
    \/ \E v \in RequestHandlerReturns : HandlerReturn(v)
    \/ \E failure \in HandlerFailures : HandlerThrows(failure)
    \/ CallRouter
    \/ ReturnUnhandled
    \/ HandleSettled
    \/ ErrorHandlerReturns
    \/ StreamEnds
    \/ MessageHandledCompleted
    \/ RequestFinished

RequestSpec == RequestInit /\ [][RequestNext]_vars

\* ------------------------------------------------------------------------
\* Reading the dispatch log
\* ------------------------------------------------------------------------

HandledTypes == {"HANDLED", "RESULT"}

RouterEntries == {n \in DOMAIN log : log[n].target.kind = "router"}

ListenerEntries == {n \in DOMAIN log : log[n].target.kind = "listener"}

\* The entries invoked, directly or not, by the handle() call of entry n.
Desc(n) ==
    {m \in (n + 1)..Len(log) : \A j \in (n + 1)..m : log[j].depth > log[n].depth}

\* The targets the loop of entry n's handle() call invoked itself.
Children(n) == {m \in Desc(n) : log[m].depth = log[n].depth + 1}

\* m is the Position(n, m)-th target invoked by the loop of entry n.
Position(n, m) == Cardinality({j \in Children(n) : j <= m})

LastChild(n) == Max(Children(n))

\* The handle() call whose loop invoked entry m.
Parent(m) == Max({n \in RouterEntries : n < m /\ log[n].depth = log[m].depth - 1})

\* The targets the loop of entry n invoked, in the order of invocation.
Evaluated(n) ==
    [k \in 1..Cardinality(Children(n)) |->
        log[CHOOSE m \in Children(n) : Position(n, m) = k].target]

Returned(n) == log[n].res # "PENDING"

Range(f) == {f[k] : k \in DOMAIN f}

\* arr without item, every other element in place.
RemoveTarget(arr, item) == SelectSeq(arr, LAMBDA x : x # item)

\* ------------------------------------------------------------------------
\* C1
\* ------------------------------------------------------------------------

\* C1: handle() invokes the targets of the router's list in registration
\* order (the k-th target it invokes is the k-th of the list), every target
\* invoked before the last one returned Unhandled, it returns the first
\* result that is not Unhandled, and it returns Unhandled only when every
\* target of the list has been invoked and returned Unhandled.
C1_HandleReturnsFirstHandled ==
    /\ \A n \in RouterEntries :
          /\ \A m \in Children(n) :
                /\ Position(n, m) <= Len(log[n].snap)
                /\ log[m].target = log[n].snap[Position(n, m)]
                /\ m # LastChild(n) => log[m].res = "UNHANDLED"
          /\ Returned(n) =>
                IF \E m \in Children(n) : log[m].res \in HandledTypes
                THEN log[n].res = log[LastChild(n)].res
                ELSE /\ log[n].res = "UNHANDLED"
                     /\ Cardinality(Children(n)) = Len(log[n].snap)
    /\ phase = "done" => result.type = log[1].res

\* A dispatch over a root list of three targets: the first returned
\* Unhandled, the second's result was returned, the third was not invoked.
C1_Witness ==
    /\ phase = "done"
    /\ Len(log[1].snap) = 3
    /\ Cardinality(Children(1)) = 2
    /\ result.type \in HandledTypes
    /\ \E m \in Children(1) : Position(1, m) = 1 /\ log[m].res = "UNHANDLED"

\* ------------------------------------------------------------------------
\* C2, C3
\* ------------------------------------------------------------------------

\* C2: detach() of a listener that is in its router's list removes exactly
\* that listener; every other target stays, in the same order.
C2_DetachRemovesOnlyThatListener ==
    [][(/\ lastDetach'.kind = "listener"
        /\ lastDetach' \in Range(handlers[listeners[lastDetach'.id].owner]))
       => handlers' = [handlers EXCEPT ![listeners[lastDetach'.id].owner] =
                          RemoveTarget(@, lastDetach')]]_vars

\* C3: a second detach() of a listener, directly after its first, leaves the
\* router's list unchanged.
C3_SecondDetachChangesNothing ==
    [][(lastDetach.kind = "listener" /\ lastDetach' = lastDetach)
       => handlers' = handlers]_vars

\* ------------------------------------------------------------------------
\* C4
\* ------------------------------------------------------------------------

\* C4: whatever is registered or detached while a handle() call is in
\* progress, the list it iterates is the list the router held when the call
\* began; the targets it has invoked are the first targets of that list, in
\* order; it returns Unhandled only after invoking all of them; and a
\* listener that detached itself during its turn and returned Unhandled is
\* followed by the target that came after it in that list.
C4_IteratesListAtStart ==
    /\ \A d \in DOMAIN stack : Targets(stack[d]) = log[PendingAt(d - 1)].snap
    /\ \A n \in RouterEntries :
          /\ Cardinality(Children(n)) <= Len(log[n].snap)
          /\ Evaluated(n) = SubSeq(log[n].snap, 1, Cardinality(Children(n)))
          /\ log[n].res = "UNHANDLED" => Evaluated(n) = log[n].snap
          /\ \A m \in Children(n) :
                (/\ log[m].detached
                 /\ log[m].res = "UNHANDLED"
                 /\ Position(n, m) < Len(log[n].snap)
                 /\ Returned(n))
                => \E m2 \in Children(n) :
                      /\ Position(n, m2) = Position(n, m) + 1
                      /\ log[m2].target = log[n].snap[Position(n, m) + 1]

\* The second of three root listeners detached itself during its turn and
\* returned Unhandled; the third, although no longer in the router's list,
\* was invoked.
C4_Witness ==
    /\ phase = "done"
    /\ Len(log[1].snap) = 3
    /\ \A k \in 1..3 : log[1].snap[k].kind = "listener"
    /\ \E m \in Children(1) :
          /\ Position(1, m) = 2
          /\ log[m].detached
          /\ log[m].res = "UNHANDLED"
    /\ \E m \in Children(1) : Position(1, m) = 3
    /\ log[1].snap[3] \notin Range(handlers[1])

\* ------------------------------------------------------------------------
\* C5
\* ------------------------------------------------------------------------

LiteralChars == (IdentStart \ {"_"}) \cup {"/"}

\* The listener's full path is literal and equal to the request path, and
\* the request method is the one it was registered for, if any.
LiteralMatch(l) ==
    /\ \A k \in DOMAIN listeners[l].fullPath : listeners[l].fullPath[k] \in LiteralChars
    /\ ctx.path = listeners[l].fullPath
    /\ \A k \in DOMAIN listeners[l].preConditions :
          ctx.method = listeners[l].preConditions[k]

C6_SubRouterBeforeSibling ==
    \A n \in RouterEntries \ {1} :
        (\E m \in Desc(n) : log[m].target.kind = "listener" /\ log[m].res \in HandledTypes)
        => LET p == Parent(n)
           IN  /\ log[n].res \in HandledTypes
               /\ n = LastChild(p)
               /\ \A k \in (Position(p, n) + 1)..Len(log[p].snap) :
                     log[p].snap[k].kind = "listener"
                     => /\ log[p].snap[k].id \notin Range(handlerCalls)
                        /\ \A j \in Children(p) : log[j].target # log[p].snap[k]

\* A listener of a sub-router answered the request; the root holds, after
\* the sub-router, a listener whose pattern matches the request as well.
C6_Witness ==
    /\ phase = "done"
    /\ \E n \in Children(1) :
          /\ log[n].target.kind = "router"
          /\ \E m \in Desc(n) : log[m].res \in HandledTypes /\ log[m].target.kind = "listener"
          /\ \E k \in (Position(1, n) + 1)..Len(log[1].snap) :
                /\ log[1].snap[k].kind = "listener"
                /\ RegExpTest(listeners[log[1].snap[k].id].regexp, ctx.path)
                /\ listeners[log[1].snap[k].id].preConditions = <<>>

\* ------------------------------------------------------------------------
\* C7
\* ------------------------------------------------------------------------

\* C7: detach() of a sub-router removes exactly that sub-router's entry from
\* its parent's list and leaves every other target in place; when the entry
\* is no longer there, and for the root router, it changes nothing.
C7_RouterDetachRemovesItsEntry ==
    [][lastDetach'.kind = "router"
       => handlers' = IF parents[lastDetach'.id] = 0
                      THEN handlers
                      ELSE [handlers EXCEPT ![parents[lastDetach'.id]] =
                               RemoveTarget(@, lastDetach')]]_vars

\* A sub-router has just been detached from a parent that still holds its
\* two listeners.
C7_Witness ==
    /\ lastDetach.kind = "router"
    /\ parents[lastDetach.id] # 0
    /\ lastDetach \notin Range(handlers[parents[lastDetach.id]])
    /\ Len(handlers[parents[lastDetach.id]]) = 2
    /\ \A k \in 1..2 : handlers[parents[lastDetach.id]][k].kind = "listener"

\* ------------------------------------------------------------------------
\* C8
\* ------------------------------------------------------------------------

\* The listener's preconditions (the method it was registered for) hold for
\* the request.
MethodMatch(l) ==
    \A k \in DOMAIN listeners[l].preConditions :
        ctx.method = listeners[l].preConditions[k]

\* s without the leading slash that registration drops.
SubPath(s) == IF Len(s) > 0 /\ s[1] = "/" THEN SubSeq(s, 2, Len(s)) ELSE s

IsLiteral(s) == \A k \in DOMAIN s : s[k] \in LiteralChars

\* The listeners registered on a router created by createRouter('/api') on
\* the root, whose prefix is '/'.
ApiListeners ==
    {l \in Listeners :
        /\ parents[listeners[l].owner] = 1
        /\ prefixPaths[1] = <<"/">>
        /\ prefixPaths[listeners[l].owner] = Api \o <<"/">>}

\* C8: a listener registered with a literal sub-path s on the sub-router made
\* by createRouter('/api') under the root '/' returns a result that is not
\* Unhandled for a request to '/api/' + s (of its method), and Unhandled
\* for a request to '/' + s.
C8_SubRouterPrefixScopesListener ==
    \A n \in ListenerEntries :
        LET l == log[n].target.id
            s == SubPath(listeners[l].path)
        IN  (l \in ApiListeners /\ IsLiteral(s) /\ Returned(n))
            => /\ (ctx.path = Api \o <<"/">> \o s /\ MethodMatch(l))
                  => log[n].res \in HandledTypes /\ l \in Range(handlerCalls)
               /\ ctx.path = <<"/">> \o s
                  => log[n].res = "UNHANDLED" /\ l \notin Range(handlerCalls)

\* The listener registered as 'x/b' on the '/api' sub-router has answered a
\* request to '/api/x/b'.
C8_Witness ==
    /\ phase = "done"
    /\ ctx.path = Api \o <<"/", "x", "/", "b">>
    /\ result.type \in HandledTypes
    /\ \E n \in ListenerEntries :
          /\ log[n].target.id \in ApiListeners
          /\ listeners[log[n].target.id].path = <<"x", "/", "b">>
          /\ log[n].res \in HandledTypes

\* ------------------------------------------------------------------------
\* C9
\* ------------------------------------------------------------------------

IdSegment == <<":", "i", "d">>

\* The listeners whose full path is literal up to a last segment ':id'.
IdListeners ==
    {l \in Listeners :
        LET f == listeners[l].fullPath
        IN  /\ Len(f) > Len(IdSegment)
            /\ SubSeq(f, Len(f) - Len(IdSegment) + 1, Len(f)) = IdSegment
            /\ IsLiteral(SubSeq(f, 1, Len(f) - Len(IdSegment)))}

\* The full path of an IdListeners member up to and including the slash
\* before ':id'.
BeforeId(l) == SubSeq(listeners[l].fullPath, 1, Len(listeners[l].fullPath) - Len(IdSegment))

\* C9: for a listener registered with '.../:id', a request whose path gives
\* a non-empty value without '/' for that segment (and whose method it
\* accepts) invokes the handler with ctx.params holding exactly id = that
\* value; a request whose path lacks the segment ('/users', '/users/') gets
\* Unhandled from the listener and its handler is not invoked.
C9_NamedParameterCaptured ==
    \A n \in ListenerEntries :
        LET l == log[n].target.id
        IN  l \in IdListeners
            => /\ \A v \in ParamValues :
                     (ctx.path = BeforeId(l) \o v /\ MethodMatch(l))
                     => /\ Returned(n) => log[n].res \in HandledTypes
                        /\ (Returned(n) \/ phase = "handler")
                           => /\ l \in Range(handlerCalls)
                              /\ ctx.params = [defined |-> TRUE,
                                               map |-> {<<<<"i", "d">>, v>>}]
               /\ (ctx.path \in {BeforeId(l), SubSeq(BeforeId(l), 1, Len(BeforeId(l)) - 1)}
                   /\ Returned(n))
                  => log[n].res = "UNHANDLED" /\ l \notin Range(handlerCalls)

\* The handler registered for '/users/:id' is running for a request to
\* '/users/42' and sees params.id = '42'.
C9_Witness ==
    /\ phase = "handler"
    /\ ctx.path = Users \o <<"/", "4", "2">>
    /\ listeners[current.listener].path = Users \o <<"/">> \o IdSegment
    /\ ctx.params.defined
    /\ ctx.params.map = {<<<<"i", "d">>, <<"4", "2">>>>}

\* ------------------------------------------------------------------------
\* C10
\* ------------------------------------------------------------------------

\* The listeners whose full path is literal up to a last segment '*'.
WildcardListeners ==
    {l \in Listeners :
        LET f == listeners[l].fullPath
        IN  /\ Len(f) >= 2
            /\ f[Len(f)] = "*"
            /\ f[Len(f) - 1] = "/"
            /\ IsLiteral(SubSeq(f, 1, Len(f) - 1))}

\* p begins with q.
BeginsWith(p, q) == Len(p) >= Len(q) /\ SubSeq(p, 1, Len(q)) = q

\* C10: a listener registered with '.../*' matches every request path that
\* begins with its full path up to and including the slash before '*',
\* whatever follows, further '/' included: it returns a result that is not
\* Unhandled for every such request of a method it accepts.
C10_TrailingWildcardMatchesRemainder ==
    \A n \in ListenerEntries :
        LET l == log[n].target.id
            f == listeners[l].fullPath
        IN  (/\ l \in WildcardListeners
             /\ BeginsWith(ctx.path, SubSeq(f, 1, Len(f) - 1))
             /\ MethodMatch(l)
             /\ Returned(n))
            => /\ RegExpTest(listeners[l].regexp, ctx.path)
               /\ log[n].res \in HandledTypes
               /\ l \in Range(handlerCalls)

\* The listener registered for '/files/*' has answered a request to
\* '/files/a/b/c'.
C10_Witness ==
    /\ phase = "done"
    /\ ctx.path = Files \o <<"/", "a", "/", "b", "/", "c">>
    /\ result.type \in HandledTypes
    /\ \E n \in ListenerEntries :
          /\ listeners[log[n].target.id].path = Files \o <<"/", "*">>
          /\ log[n].res \in HandledTypes

\* ------------------------------------------------------------------------
\* C11
\* ------------------------------------------------------------------------

\* The listeners whose full path is literal and ends in '/'.
TrailingSlashListeners ==
    {l \in Listeners :
        /\ IsLiteral(listeners[l].fullPath)
        /\ Len(listeners[l].fullPath) > 0
        /\ listeners[l].fullPath[Len(listeners[l].fullPath)] = "/"}

\* The full path without its last character.
WithoutLast(f) == SubSeq(f, 1, Len(f) - 1)

\* C11: a listener whose pattern ends in '/' (a handler registered without
\* a path on a router with prefix P included) matches the path with the
\* trailing slash and the same path without it, and no other path: for a
\* request of its method it returns a result that is not Unhandled exactly
\* for those two paths.
C11_TrailingSlashOptional ==
    \A n \in ListenerEntries :
        LET l == log[n].target.id
            f == listeners[l].fullPath
        IN  l \in TrailingSlashListeners
            => /\ RegExpTest(listeners[l].regexp, ctx.path)
                  <=> ctx.path \in {f, WithoutLast(f)}
               /\ (Returned(n) /\ MethodMatch(l))
                  => (log[n].res \in HandledTypes <=> ctx.path \in {f, WithoutLast(f)})

\* A handler registered without a path on the '/api' sub-router has answered
\* a request to '/api'.
C11_Witness ==
    /\ phase = "done"
    /\ ctx.path = Api
    /\ result.type \in HandledTypes
    /\ \E n \in ListenerEntries :
          /\ log[n].target.id \in TrailingSlashListeners
          /\ listeners[log[n].target.id].path = <<>>
          /\ listeners[log[n].target.id].fullPath = Api \o <<"/">>
          /\ log[n].res \in HandledTypes

\* ------------------------------------------------------------------------
\* C12
\* ------------------------------------------------------------------------

\* The listeners made by get(path, handler).
GetListeners == {l \in Listeners : listeners[l].method = "GET"}

\* C12: a listener registered with get(path, handler) returns Unhandled for
\* a POST request to the same path, and its handler is not invoked.
C12_GetRejectsPost ==
    \A n \in ListenerEntries :
        LET l == log[n].target.id
        IN  (/\ l \in GetListeners
             /\ ctx.method = "POST"
             /\ ctx.path = listeners[l].fullPath)
            => /\ log[n].called = "none"
               /\ l \notin Range(handlerCalls)
               /\ phase = "handler" => current.listener # l
               /\ Returned(n) => log[n].res = "UNHANDLED"

\* A POST request to '/x' has been refused by the listener made by
\* get('x', handler), at its method precondition.
C12_Witness ==
    /\ phase = "done"
    /\ ctx.method = "POST"
    /\ ctx.path = <<"/", "x">>
    /\ result.type = "UNHANDLED"
    /\ \E n \in ListenerEntries :
          /\ log[n].target.id \in GetListeners
          /\ log[n].pres = <<1>>
          /\ log[n].res = "UNHANDLED"

\* ------------------------------------------------------------------------
\* C13
\* ------------------------------------------------------------------------

\* A method name in upper case, whatever its casing.
UpperCased(m) ==
    IF m \in {"get", "Get", "GET"} THEN "GET"
    ELSE IF m \in {"post", "Post", "POST"} THEN "POST"
    ELSE m

\* The listeners made by add(method, path, handler), with no precondition
\* added since.
AddListeners ==
    {l \in Listeners :
        listeners[l].method # NoMethod /\ Len(listeners[l].preConditions) = 1}

\* C13: a listener registered with add(method, path, handler) passes its
\* method precondition exactly when the request's method and the registered
\* method are equal once both are uppercased, for every casing of either:
\* for a request whose path it matches, its handler is invoked exactly then.
C13_MethodComparedCaseInsensitively ==
    \A n \in ListenerEntries :
        LET l == log[n].target.id
        IN  (/\ l \in AddListeners
             /\ RegExpTest(listeners[l].regexp, ctx.path)
             /\ Returned(n))
            => (log[n].called # "none"
                <=> UpperCased(ctx.method) = UpperCased(listeners[l].method))

\* ------------------------------------------------------------------------
\* C14
\* ------------------------------------------------------------------------

\* The listener's pattern and every one of its preconditions accept the
\* request.
ListenerAccepts(l) ==
    /\ RegExpTest(listeners[l].regexp, ctx.path)
    /\ \A k \in DOMAIN listeners[l].preConditions :
          ctx.method = listeners[l].preConditions[k]

\* C14: when a listener's pattern and all its preconditions accept the
\* request, its handler is invoked and the listener's result is Handled if
\* the handler returned undefined, and otherwise Result carrying exactly the
\* value the handler returned (the empty string included); it is never
\* Unhandled.
C14_HandlerValueMapped ==
    \A n \in ListenerEntries :
        (ListenerAccepts(log[n].target.id) /\ Returned(n))
        => /\ log[n].ret # "NONE"
           /\ log[n].res # "UNHANDLED"
           /\ log[n].ret = "undefined"
              => log[n].res = "HANDLED" /\ result.type = "HANDLED"
           /\ log[n].ret # "undefined"
              => /\ log[n].res = "RESULT"
                 /\ result = [type |-> "RESULT", result |-> log[n].ret]

\* A handler returned the empty string and the listener returned Result
\* carrying it.
C14_Witness ==
    /\ phase = "done"
    /\ result = [type |-> "RESULT", result |-> ""]
    /\ \E n \in ListenerEntries :
          /\ ListenerAccepts(log[n].target.id)
          /\ Len(listeners[log[n].target.id].preConditions) > 0
          /\ log[n].ret = ""
          /\ log[n].res = "RESULT"

\* ------------------------------------------------------------------------
\* C15
\* ------------------------------------------------------------------------

\* The precondition at position k of listener l yields true for the request.
Yields(l, k) == ctx.method = listeners[l].preConditions[k]

\* C15: a listener evaluates its preconditions one at a time in the order
\* they were added (the j-th evaluated is the j-th added), and none unless
\* its pattern matched the path; every precondition evaluated before the
\* last one yielded true; when the last one evaluated yields false the
\* listener has returned Unhandled without invoking its handler; and the
\* handler is invoked only after all preconditions were evaluated.
C15_PreConditionsInOrder ==
    \A n \in ListenerEntries :
        LET l == log[n].target.id
            k == Len(log[n].pres)
        IN  /\ k <= Len(listeners[l].preConditions)
            /\ \A j \in 1..k : log[n].pres[j] = j
            /\ k > 0 => RegExpTest(listeners[l].regexp, ctx.path)
            /\ \A j \in 1..(k - 1) : Yields(l, j)
            /\ (k > 0 /\ ~Yields(l, k))
               => log[n].res = "UNHANDLED" /\ log[n].called = "none"
            /\ log[n].called # "none"
               => k = Len(listeners[l].preConditions) /\ \A j \in 1..k : Yields(l, j)

\* A listener with three preconditions evaluated the first, which yielded
\* true, and the second, which yielded false, and returned Unhandled: the
\* third was not evaluated and the handler was not invoked.
C15_Witness ==
    /\ phase = "done"
    /\ \E n \in ListenerEntries :
          /\ Len(listeners[log[n].target.id].preConditions) = 3
          /\ Yields(log[n].target.id, 3)
          /\ log[n].pres = <<1, 2>>
          /\ log[n].res = "UNHANDLED"
          /\ log[n].called = "none"

\* ------------------------------------------------------------------------
\* C16
\* ------------------------------------------------------------------------

\* C16: when replaceHandler is called while a request is executing the
\* listener's handler, that request's result is produced by the handler the
\* listener held before the call; and a handler invocation that starts
\* after a replacement runs the handler the listener holds by then.
C16_ReplaceHandlerTakesEffectOnNextInvocation ==
    /\ \A n \in ListenerEntries :
          (log[n].replaced # "none" /\ log[n].by # "none")
          => log[n].by = log[n].replaced
    /\ (phase = "handler" /\ log[Len(log)].replaced = "none")
       => log[Len(log)].called = listeners[current.listener].routeHandler

\* A request answered by h1 although the listener's handler was replaced by
\* h2 while h1 was running.
C16_Witness ==
    /\ phase = "done"
    /\ \E n \in ListenerEntries :
          /\ log[n].replaced = "h1"
          /\ listeners[log[n].target.id].routeHandler = "h2"
          /\ log[n].by = "h1"
          /\ log[n].res \in HandledTypes

\* ------------------------------------------------------------------------
\* C17
\* ------------------------------------------------------------------------

\* The mime type a candidate stands for.
Expanded(c) == IF Len(c) = 1 /\ c[1] \in ShorthandNames THEN MimeTypeShorthands(c[1]) ELSE c

\* The quality of an item of the accept header.
Quality(item) == IF item.hasQ THEN item.q ELSE 10

\* The item's major type equals the candidate's, and its subtype equals the
\* candidate's or is '*'.
TypeMatches(item, c) ==
    /\ Len(item.mimeType) = 3
    /\ Len(Expanded(c)) = 3
    /\ item.mimeType[1] = Expanded(c)[1]
    /\ item.mimeType[3] = Expanded(c)[3] \/ item.mimeType[3] = "*"

\* The position of the candidate the item selects, 0 if it selects none.
Selection(item, types) ==
    IF item.mimeType = <<"*", "/", "*">> THEN 1
    ELSE IF \E j \in DOMAIN types : TypeMatches(item, types[j])
    THEN CHOOSE j \in DOMAIN types :
            /\ TypeMatches(item, types[j])
            /\ \A k \in 1..(j - 1) : ~TypeMatches(item, types[k])
    ELSE 0

\* Item i comes before item k in descending quality (items of equal quality
\* in the order of the header).
WalkedBefore(accept, i, k) ==
    \/ Quality(accept[i]) > Quality(accept[k])
    \/ Quality(accept[i]) = Quality(accept[k]) /\ i < k

\* The reference: the candidate selected by the first item, in descending
\* quality, that selects one; nothing (false) if there is none.
Reference(accept, types) ==
    LET selecting == {i \in DOMAIN accept : Selection(accept[i], types) # 0}
    IN  IF Len(types) = 0 \/ selecting = {} THEN <<>>
        ELSE LET first == CHOOSE i \in selecting :
                              \A k \in selecting \ {i} : WalkedBefore(accept, i, k)
             IN  <<types[Selection(accept[first], types)]>>

\* C17: accepts(c1..cn) returns the candidate the reference selects (walk
\* the accept entries in descending quality; '*/*' selects c1, any other
\* entry the first candidate of its major type whose subtype it names or
\* for which its subtype is '*'), and false when no entry selects one or
\* n = 0.  In particular accepts('json', 'html') returns 'json' for
\* 'text/html;q=0.8, application/json;q=0.9' and for '*/*', and false for
\* 'text/plain'.
C17_AcceptsFollowsReference ==
    ctx.call.op = "accepts"
    => /\ ctx.call.ret = Reference(ctx.accept, ctx.call.arg)
       /\ ctx.call.arg = << <<"json">>, <<"html">> >>
          => /\ ctx.accept = <<Item(Html, 8), Item(Json, 9)>>
                => ctx.call.ret = << <<"json">> >>
             /\ ctx.accept = <<PlainItem(AnyType)>>
                => ctx.call.ret = << <<"json">> >>
             /\ ctx.accept = <<PlainItem(TextPlain)>>
                => ctx.call.ret = <<>>

\* accepts('json', 'html') has returned 'json' for the header
\* 'text/html;q=0.8, application/json;q=0.9'.
C17_Witness ==
    /\ ctx.call.op = "accepts"
    /\ ctx.call.arg = << <<"json">>, <<"html">> >>
    /\ ctx.accept = <<Item(Html, 8), Item(Json, 9)>>
    /\ ctx.call.ret = << <<"json">> >>

\* ------------------------------------------------------------------------
\* C18
\* ------------------------------------------------------------------------

IsElse(key) == key = <<"else">>

\* The keys of the object other than 'else', in the object's own key order.
OtherKeys(keys) == SelectSeq(keys, LAMBDA key : ~IsElse(key))

\* The key of the handler accepting has to invoke for an object with an
\* 'else' key.
ExpectedKey(accept, keys) ==
    IF Reference(accept, OtherKeys(keys)) = <<>> THEN <<"else">>
    ELSE Reference(accept, OtherKeys(keys))[1]

\* C18: accepting(obj) throws and invokes no handler when obj has no 'else'
\* key; otherwise it does not throw and invokes exactly one handler: the
\* one keyed by the result of accepts over the other keys in the object's
\* own key order, or 'else' when that result is false or there is no other
\* key.
C18_AcceptingInvokesOneHandler ==
    ctx.call.op = "accepting"
    => IF \E i \in DOMAIN ctx.call.arg : IsElse(ctx.call.arg[i])
       THEN /\ ~ctx.call.thrown
            /\ ctx.call.ret = <<ExpectedKey(ctx.accept, ctx.call.arg)>>
       ELSE /\ ctx.call.thrown
            /\ ctx.call.ret = <<>>

\* accepting({ else, html, json }) has invoked the html handler for the
\* header '*/*'.
C18_Witness ==
    /\ ctx.call.op = "accepting"
    /\ ctx.call.arg = << <<"else">>, <<"html">>, <<"json">> >>
    /\ ctx.accept = <<PlainItem(AnyType)>>
    /\ ~ctx.call.thrown
    /\ ctx.call.ret = << <<"html">> >>

\* ------------------------------------------------------------------------
\* C19
\* ------------------------------------------------------------------------

BothInstalled ==
    /\ Len(installs) = 2
    /\ \A i \in DOMAIN installs : installs[i].at = "completed"
    /\ app.extensions = <<installs[1].extension, installs[2].extension>>

\* The fields both extensions return from decorateApplication.
SharedFields ==
    DOMAIN installs[1].extension.decorateApplication.fields
        \cap DOMAIN installs[2].extension.decorateApplication.fields

\* C20: when two extensions that both return a field of the same name from
\* decorateApplication are installed on one application, then after both
\* install operations have completed the field holds the value of the
\* second-installed extension (the one whose install was called second and
\* which stands second among the installed extensions).
C20_SecondInstalledWins ==
    BothInstalled
    => \A f \in SharedFields :
           app.fields[f] = installs[2].extension.decorateApplication.fields[f]

\* ------------------------------------------------------------------------
\* C21
\* ------------------------------------------------------------------------

\* The routers createRouter has returned to the application.
CreatedRouters == {r \in Routers : parents[r] # 0}

\* The decoration createRouter started for router r, if it started one.
DecorationsOf(r) ==
    {t \in DOMAIN decorations : decorations[t].target = RouterTarget(r)}

\* C21: a router returned by createRouter has, from the moment createRouter
\* returns it, every installed extension's decorateRouterContext result
\* merged onto it.
C21_CreatedRouterIsDecorated ==
    \A r \in CreatedRouters :
        \A t \in DecorationsOf(r) :
            RouterFields(routerFields, r)
                = Decorate(<<>>, decorations[t].extensions, "decorateRouterContext")

\* ------------------------------------------------------------------------
\* C22
\* ------------------------------------------------------------------------

\* The hook of extension k, called in the side-effect-only pass of the
\* decoration, was called and its promise settled before event m.
LifecycleHookDoneBefore(task, k, m) ==
    \E i, j \in 1..(m - 1) :
        /\ i < j
        /\ task.events[i] = HookEvent(1, k, "called")
        /\ task.events[j] = HookEvent(1, k, "settled")

\* C22: when a router or a message context is decorated with a list of
\* extensions, the side-effect-only pass over every extension's hook has
\* completed, asynchronous hooks included, before the hooks are called for
\* their results and before any returned partial object is merged onto the
\* target.
C22_LifecyclePassBeforeMerge ==
    \A t \in DOMAIN decorations :
        \A m \in DOMAIN decorations[t].events :
            decorations[t].events[m].pass = 2
            => \A k \in DOMAIN decorations[t].extensions :
                   decorations[t].extensions[k][decorations[t].functionName].defined
                   => LifecycleHookDoneBefore(decorations[t], k, m)

\* A router and the message context of a request have both been decorated
\* with two extensions that define the hook; in the side-effect-only pass of
\* the router's decoration the second extension's hook settled before the
\* first one's.
C22_Witness ==
    \E t, u \in DOMAIN decorations :
        /\ decorations[t].at = "merged"
        /\ decorations[t].target.kind = "router"
        /\ Len(Having(decorations[t].extensions, decorations[t].functionName)) = 2
        /\ \E i, j \in DOMAIN decorations[t].events :
              /\ i < j
              /\ decorations[t].events[i] = HookEvent(1, 2, "settled")
              /\ decorations[t].events[j] = HookEvent(1, 1, "settled")
        /\ RouterFields(routerFields, decorations[t].target.id)
              = [log |-> "log", user |-> "auth"]
        /\ decorations[u].at = "merged"
        /\ decorations[u].target.kind = "message"
        /\ Len(Having(decorations[u].extensions, decorations[u].functionName)) = 2
        /\ ctx.fields = [log |-> "log"]

\* ------------------------------------------------------------------------
\* C23
\* ------------------------------------------------------------------------

\* The factory behind what was handed to install: the value itself, the
\* value a promise resolves to, or the default export of a module object.
Underlying(param) ==
    LET value == IF DOMAIN param = {"promise"} THEN param.promise ELSE param
    IN  IF DOMAIN value = {"default"} THEN value.default ELSE value

\* The installs whose extension's result of the function has been merged.
MergedInstalls(functionName) ==
    {j \in DOMAIN installs :
        \/ installs[j].at = "completed"
        \/ installs[j].at = "decorateApplication" /\ functionName = "decorateRouterContext"}

\* The field carries what an extension whose result was merged returned for it.
FieldMerged(f) ==
    /\ f \in DOMAIN app.fields
    /\ \E functionName \in {"decorateRouterContext", "decorateApplication"} :
          \E j \in MergedInstalls(functionName) :
              /\ f \in DOMAIN installs[j].extension[functionName].fields
              /\ app.fields[f] = installs[j].extension[functionName].fields[f]

\* C23: when the promise returned by install(factory, setup) resolves, the
\* new extension instance stands exactly once in the installed-extensions
\* list, it is an instance of the factory handed over (ready, as a promise,
\* or as the default export of a module object), and its
\* decorateRouterContext result and its decorateApplication result have been
\* merged onto the application; with no other install made, the application
\* carries exactly those values.
C23_InstallResolvedMeansInstalled ==
    \A i \in DOMAIN installs :
        installs[i].at = "completed"
        => /\ \E p \in DOMAIN app.extensions :
                 /\ app.extensions[p] = installs[i].extension
                 /\ \A q \in DOMAIN app.extensions :
                        app.extensions[q].instance = i => q = p
           /\ installs[i].extension.name = Underlying(installs[i].factory).name
           /\ \A functionName \in {"decorateRouterContext", "decorateApplication"} :
                 \A f \in DOMAIN installs[i].extension[functionName].fields :
                     /\ FieldMerged(f)
                     /\ (Len(installs) = 1 /\ functionName = "decorateApplication")
                        => app.fields[f] = installs[i].extension[functionName].fields[f]

\* The install of a module object handed over as a promise, the second
\* install made, has resolved: its extension is the second of the list and
\* its 'render' and 'ws' fields are on the application.
C23_Witness ==
    /\ Len(installs) = 2
    /\ installs[2].at = "completed"
    /\ DOMAIN installs[2].factory = {"promise"}
    /\ DOMAIN installs[2].factory.promise = {"default"}
    /\ installs[1].extension.name = "log"
    /\ installs[1].at = "decorateApplication"
    /\ app.extensions[2].name = "ws"
    /\ app.fields = [log |-> "log", render |-> "ws", ws |-> "ws"]

\* ------------------------------------------------------------------------
\* C24
\* ------------------------------------------------------------------------

\* The entries of the targets that threw.
Throwers(entries) == {n \in DOMAIN entries : entries[n].thrown # "none"}

\* What the precondition or handler about to run throws, if it throws.
AboutToThrow ==
    IF phase = "pre"
    THEN {listeners[current.listener].preConditions[current.pre]}
    ELSE {"Error"}

\* C24: when a route handler or a precondition throws or rejects during
\* handle(), the root's handle() rejects with that same failure, no target
\* is invoked after the one that threw, the response status and headers set
\* before the failure keep their values, and every router's target list is
\* what it was: the list the dispatch found when it called that router.
C24_FailurePropagatesUnchanged ==
    [][/\ (Throwers(log) = {} /\ Throwers(log') # {})
          => /\ Throwers(log') = {Len(log')}
             /\ log'[Len(log')].thrown \in AboutToThrow
             /\ result' = [type |-> "REJECTED", result |-> log'[Len(log')].thrown]
             /\ phase' = "done"
             /\ stack' = <<>>
             /\ handlerCalls' = handlerCalls
             /\ ctx'.status = ctx.status
             /\ ctx'.responseHeaders = ctx.responseHeaders
             /\ handlers' = handlers
             /\ \A n \in DOMAIN log' :
                    log'[n].target.kind = "router"
                    => handlers'[log'[n].target.id] = log'[n].snap
       /\ Throwers(log) # {}
          => /\ Len(log') <= Len(log)
             /\ handlerCalls' \in {handlerCalls, <<>>}
             /\ handlers' = handlers
      ]_vars

\* A handler in a sub-router set the status and a header and threw: the
\* root's handle() has rejected with the failure, status and header are
\* still set, and the root's listener that comes after the sub-router was
\* not invoked.
C24_Witness ==
    /\ phase = "done"
    /\ result = [type |-> "REJECTED", result |-> "Error"]
    /\ ctx.status = 201
    /\ "x-trace" \in DOMAIN ctx.responseHeaders
    /\ ctx.responseHeaders["x-trace"] = << <<"on">> >>
    /\ Len(log) = 3
    /\ log[3].target.kind = "listener"
    /\ log[3].depth = 2
    /\ log[3].thrown = "Error"
    /\ Len(handlers[1]) = 2
    /\ handlers[1][2].kind = "listener"
    /\ handlers[1][2].id \notin Range(handlerCalls)

\* C25: once setExternalyHandled has been called for a request, the flag
\* stays set until the request is over and handlerFunction writes neither
\* the head nor a body to the response, whether the dispatch ended with a
\* Result, with Handled or with Unhandled.
C25_ExternallyHandledWritesNothing ==
    ctx.externallyHandled =>
        /\ ~request.res.headWritten
        /\ ~request.res.ended
        /\ ~request.piping

\* ------------------------------------------------------------------------
\* C26
\* ------------------------------------------------------------------------

\* The names of the parameter segments of a path: what follows the ':' of
\* each segment that starts with one.
ParameterNames(path) ==
    {Tail(Split(path)[k]) : k \in {j \in DOMAIN Split(path) : StartsWith(Split(path)[j], ":")}}

\* C26: registering a route whose path has a parameter segment with an
\* invalid name raises an error in the registration call and leaves the
\* router's target list unchanged: no listener is ever registered, and so no
\* request ever matched, with such a path.
C26_InvalidParameterNameNotRegistered ==
    /\ \A l \in Listeners :
          \A name \in ParameterNames(listeners[l].fullPath) : ValidGroupName(name)
    /\ \A n \in ListenerEntries :
          \A name \in ParameterNames(listeners[log[n].target.id].fullPath) :
              ValidGroupName(name)

\* ------------------------------------------------------------------------
\* C30
\* ------------------------------------------------------------------------

\* The listeners whose full path has only literal segments: no segment that
\* starts with ':', no last segment '*', no trailing '/'.
LiteralOnlyListeners ==
    {l \in Listeners :
        /\ ParameterNames(listeners[l].fullPath) = {}
        /\ ~EndsWithSlashStar(listeners[l].fullPath)
        /\ ~EndsWith(listeners[l].fullPath, "/")}

\* C30: a listener whose pattern has only literal segments matches a request
\* path if and only if the path equals, character for character, the
\* router's normalised prefix followed by the registered path, whatever
\* characters the literal segments contain.
C30_LiteralPatternMatchesEqualPathOnly ==
    \A n \in ListenerEntries :
        LET l == log[n].target.id
            f == listeners[l].fullPath
        IN  l \in LiteralOnlyListeners
            => /\ RegExpTest(listeners[l].regexp, ctx.path) <=> ctx.path = f
               /\ Returned(n) => (log[n].res \in HandledTypes <=> ctx.path = f)

\* ------------------------------------------------------------------------
\* C27
\* ------------------------------------------------------------------------

\* The extensions of the request that define the lifecycle function.
HookExtensions(functionName) ==
    {k \in DOMAIN request.extensions : request.extensions[k][functionName].defined}

\* Where the request's events hold a given event.
EventPositions(ev) == {m \in DOMAIN request.events : request.events[m] = ev}

\* Every hook of the function has settled before position m of the events.
HooksSettledBefore(functionName, m) ==
    \A k \in HookExtensions(functionName) :
        \E j \in 1..(m - 1) : request.events[j] = HookEvent(functionName, k, "settled")

\* The step ev of handlerFunction has happened before position m.
HappenedBefore(ev, m) == \E j \in 1..(m - 1) : request.events[j] = ev

\* C27: for each request every onIncomingMessage hook has completed before
\* the message context is decorated, the decoration has completed before an
\* onMessage hook is called, every onMessage hook has completed before the
\* root's handle runs, handle has settled before the response is written,
\* and the response has been written in full before an onMessageHandled
\* hook is called; each extension's onMessageHandled hook is called once per
\* request, a request whose route handler throws included.  (A request taken
\* over with setExternalyHandled, whose response is written by the handler
\* that took it over, is left out.)
C27_LifecycleOrder ==
    /\ \A m \in EventPositions(HookEvent("decorateMessageContext", 0, "called")) :
          HooksSettledBefore("onIncomingMessage", m)
    /\ \A k \in HookExtensions("onMessage") :
          \A m \in EventPositions(HookEvent("onMessage", k, "called")) :
              HappenedBefore(HookEvent("decorateMessageContext", 0, "settled"), m)
    /\ \A m \in EventPositions(HookEvent("handle", 0, "called")) :
          HooksSettledBefore("onMessage", m)
    /\ \A m \in EventPositions(ResponseEvent("writeHead")) :
          HappenedBefore(HookEvent("handle", 0, "settled"), m)
    /\ \A k \in HookExtensions("onMessageHandled") :
          /\ Cardinality(EventPositions(HookEvent("onMessageHandled", k, "called"))) <= 1
          /\ request.at = "finished"
             => Cardinality(EventPositions(HookEvent("onMessageHandled", k, "called"))) = 1
          /\ \A m \in EventPositions(HookEvent("onMessageHandled", k, "called")) :
                ~ctx.externallyHandled => HappenedBefore(ResponseEvent("end"), m)

\* ------------------------------------------------------------------------
\* C28
\* ------------------------------------------------------------------------

\* The log entries of listeners that return Unhandled in the step taken.
ReturningUnhandled ==
    {n \in DOMAIN log' :
        /\ log'[n].target.kind = "listener"
        /\ log'[n].res = "UNHANDLED"
        /\ n \in DOMAIN log => log[n].res = "PENDING"}

\* C28: a listener that returns Unhandled for a request, its pattern having
\* rejected the path or one of its preconditions having yielded false, has
\* not invoked its handler and has left ctx.params as it was before the
\* listener was tried: no step of the listener's turn, from the test of the
\* pattern through the preconditions to the return of Unhandled, invokes a
\* handler or touches ctx.params.
C28_UnhandledLeavesHandlerAndParams ==
    [][(phase' = "pre" \/ ReturningUnhandled # {})
       => /\ \A n \in ReturningUnhandled : log'[n].called = "none"
          /\ handlerCalls' = handlerCalls
          /\ ctx'.params = ctx.params]_vars

\* The listener of '/users/:id', registered for GET, has returned Unhandled
\* for POST /users/42 after its pattern matched and its precondition yielded
\* false; another request, to '/x', was rejected by the pattern.
C28_Witness ==
    /\ phase = "done"
    /\ ctx.path = Users \o <<"/", "4", "2">>
    /\ ctx.method = "POST"
    /\ ctx.params = NoParams
    /\ handlerCalls = <<>>
    /\ \E n \in ListenerEntries :
          /\ listeners[log[n].target.id].path = Users \o <<"/", ":", "i", "d">>
          /\ RegExpTest(listeners[log[n].target.id].regexp, ctx.path)
          /\ log[n].pres = <<1>>
          /\ log[n].res = "UNHANDLED"
          /\ log[n].called = "none"

\* ------------------------------------------------------------------------
\* C29
\* ------------------------------------------------------------------------

\* The candidates in the opposite order.
Reversed(types) == [j \in DOMAIN types |-> types[Len(types) + 1 - j]]

\* What accepts returns for the candidates, as the call records it.
AcceptsResult(types) ==
    IF Accepts(ctx, types).found THEN <<Accepts(ctx, types).value>> ELSE <<>>

\* C29: when two entries of the accept header have the same quality and
\* each matches a different candidate (no other entry matching any), accepts
\* returns the candidate matched by the entry that comes first in the
\* header, and returns the same one when the candidates are passed in the
\* opposite order.
C29_EqualQualityKeepsHeaderOrder ==
    ctx.call.op = "accepts"
    => \A i, k \in DOMAIN ctx.accept :
          (/\ i < k
           /\ Quality(ctx.accept[i]) = Quality(ctx.accept[k])
           /\ Selection(ctx.accept[i], ctx.call.arg) # 0
           /\ Selection(ctx.accept[k], ctx.call.arg) # 0
           /\ Selection(ctx.accept[i], ctx.call.arg) # Selection(ctx.accept[k], ctx.call.arg)
           /\ \A m \in DOMAIN ctx.accept \ {i, k} :
                 Selection(ctx.accept[m], ctx.call.arg) = 0)
          => /\ ctx.call.ret = <<ctx.call.arg[Selection(ctx.accept[i], ctx.call.arg)]>>
             /\ AcceptsResult(Reversed(ctx.call.arg)) = ctx.call.ret

\* accepts('json', 'html') has returned 'html' for the header
\* 'text/*;q=0.5, application/json;q=0.5', whose first entry matches 'html'
\* and whose second entry matches 'json'.
C29_Witness ==
    /\ ctx.call.op = "accepts"
    /\ ctx.call.arg = << <<"json">>, <<"html">> >>
    /\ ctx.accept = <<Item(TextAny, 5), Item(Json, 5)>>
    /\ ctx.call.ret = << <<"html">> >>

\* ------------------------------------------------------------------------
\* Headers, cookies and the response headers of a message context
\* ------------------------------------------------------------------------

\* The arguments of the header functions: undefined, a string, a number or
\* an array of such values.
Undefined == [kind |-> "undefined", str |-> <<>>, num |-> 0, items |-> <<>>]

StringArg(str) == [kind |-> "string", str |-> str, num |-> 0, items |-> <<>>]

NumberArg(num) == [kind |-> "number", str |-> <<>>, num |-> num, items |-> <<>>]

ArrayArg(items) == [kind |-> "array", str |-> <<>>, num |-> 0, items |-> items]

Digit(d) ==
    CASE d = 0 -> "0" [] d = 1 -> "1" [] d = 2 -> "2" [] d = 3 -> "3"
      [] d = 4 -> "4" [] d = 5 -> "5" [] d = 6 -> "6" [] d = 7 -> "7"
      [] d = 8 -> "8" [] d = 9 -> "9"

\* '' + it for a natural number
RECURSIVE NumberToString(_)
NumberToString(n) ==
    IF n < 10 THEN <<Digit(n)>>
    ELSE Append(NumberToString(n \div 10), Digit(n % 10))

\* '' + value for a value that is not a number: an array is joined with ','
RECURSIVE StringOf(_)
StringOf(value) ==
    CASE value.kind = "undefined" -> <<"undefined">>
      [] value.kind = "string" -> value.str
      [] value.kind = "number" -> NumberToString(value.num)
      [] value.kind = "array" ->
            IF Len(value.items) = 0 THEN <<>>
            ELSE IF Len(value.items) = 1
                 THEN (IF value.items[1].kind = "undefined" THEN <<>>
                       ELSE StringOf(value.items[1]))
            ELSE (IF value.items[1].kind = "undefined" THEN <<>>
                  ELSE StringOf(value.items[1]))
                 \o <<",">> \o StringOf(ArrayArg(Tail(value.items)))

\* value.length === 1 && Array.isArray(value[0]) ? value[0] : value
RestValues(value) ==
    IF Len(value) = 1 /\ value[1].kind = "array" THEN value[1].items ELSE value

\* values.filter(it => it !== undefined).map(it => typeof it === 'number' ? '' + it : it)
RECURSIVE Stringables(_)
Stringables(values) ==
    IF Len(values) = 0 THEN <<>>
    ELSE IF values[1].kind = "undefined" THEN Stringables(Tail(values))
    ELSE <<IF values[1].kind = "number" THEN NumberToString(values[1].num)
           ELSE values[1].str>> \o Stringables(Tail(values))

\* Headers.set(name, ...value): the header's values are replaced.
HeadersSetValues(headers, name, value) ==
    [n \in DOMAIN headers \cup {ToLowerCase(name)} |->
        IF n = ToLowerCase(name) THEN Stringables(RestValues(value)) ELSE headers[n]]

HeadersAddReplacing(headers, name, value) == HeadersSetValues(headers, name, value)

\* Headers.add(name, ...value): the values are pushed after the current ones.
HeadersAdd(headers, name, value) ==
    [n \in DOMAIN headers \cup {ToLowerCase(name)} |->
        IF n = ToLowerCase(name)
        THEN (IF n \in DOMAIN headers THEN headers[n] ELSE <<>>)
             \o Stringables(RestValues(value))
        ELSE headers[n]]

\* Headers.get(name): undefined for a name that is not a key; the first
\* value otherwise.  values[0].toString() throws a TypeError when there is
\* no first value.
HeadersGet(headers, name) ==
    IF ToLowerCase(name) \notin DOMAIN headers
    THEN [thrown |-> FALSE, defined |-> FALSE, value |-> <<>>]
    ELSE IF Len(headers[ToLowerCase(name)]) = 0
    THEN [thrown |-> TRUE, defined |-> FALSE, value |-> <<>>]
    ELSE [thrown |-> FALSE, defined |-> TRUE, value |-> headers[ToLowerCase(name)][1]]

\* Headers.getAll(name)
HeadersGetAll(headers, name) ==
    IF ToLowerCase(name) \notin DOMAIN headers
    THEN [defined |-> FALSE, values |-> <<>>]
    ELSE [defined |-> TRUE, values |-> headers[ToLowerCase(name)]]

\* The options of a cookie; an option that is not given is the empty
\* string, FALSE or hasMaxAge = FALSE.  No cookie of the model has an
\* expires option or a Date as maxAge.
CookieOptions(sameSite, secure, httpOnly, domain, path, hasMaxAge, maxAge) ==
    [sameSite |-> sameSite, secure |-> secure, httpOnly |-> httpOnly,
     domain |-> domain, path |-> path, hasMaxAge |-> hasMaxAge, maxAge |-> maxAge]

NoCookieOptions == CookieOptions("", FALSE, FALSE, <<>>, <<>>, FALSE, 0)

\* new Cookie(key, value, options)
NewCookie(key, value, options) ==
    [key |-> key, value |-> value, sameSite |-> options.sameSite,
     secure |-> options.secure, httpOnly |-> options.httpOnly,
     domain |-> options.domain, path |-> options.path,
     hasMaxAge |-> options.hasMaxAge, maxAge |-> options.maxAge]

\* encodeURIComponent on the characters the model uses
RECURSIVE EncodeURIComponent(_)
EncodeURIComponent(value) ==
    IF Len(value) = 0 THEN <<>>
    ELSE (CASE value[1] = " " -> <<"%", "2", "0">>
            [] value[1] = ";" -> <<"%", "3", "B">>
            [] value[1] = "=" -> <<"%", "3", "D">>
            [] OTHER -> <<value[1]>>)
         \o EncodeURIComponent(Tail(value))

\* this._sameSite[0].toUpperCase() + this._sameSite.slice(1)
Capitalized(sameSite) ==
    CASE sameSite = "strict" -> "Strict"
      [] sameSite = "lax" -> "Lax"
      [] sameSite = "none" -> "None"

\* if (this._maxAge): a number is truthy unless it is 0
MaxAgeTruthy(cookie) == cookie.hasMaxAge /\ cookie.maxAge # 0

\* Cookie.toString: the key, '=', the encoded value, then one '; Name=value'
\* directive for every truthy option.  The names of the directives are
\* single tokens.
CookieToString(cookie) ==
    cookie.key \o <<"=">> \o EncodeURIComponent(cookie.value)
    \o (IF cookie.sameSite # "" THEN <<";", " ", "SameSite", "=", Capitalized(cookie.sameSite)>> ELSE <<>>)
    \o (IF cookie.secure THEN <<";", " ", "Secure">> ELSE <<>>)
    \o (IF cookie.httpOnly THEN <<";", " ", "HttpOnly">> ELSE <<>>)
    \o (IF Len(cookie.domain) > 0 THEN <<";", " ", "Domain", "=">> \o cookie.domain ELSE <<>>)
    \o (IF Len(cookie.path) > 0 THEN <<";", " ", "Path", "=">> \o cookie.path ELSE <<>>)
    \o (IF MaxAgeTruthy(cookie)
        THEN <<";", " ", "Max-Age", "=">> \o NumberToString(cookie.maxAge) ELSE <<>>)

\* ctx.setCookie(key, value, options).  The cookie object is created here
\* and is reachable from the headers only, which read it with toString:
\* the header value is kept in its serialised form.
SetCookie(context, key, value, options) ==
    [context EXCEPT !.responseHeaders =
        HeadersAdd(@, "Set-Cookie",
                   <<StringArg(CookieToString(NewCookie(key, value, options)))>>)]

\* ctx.removeCookie(key): ctx.setCookie(key, '', { maxAge: 0 })
RemoveCookie(context, key) ==
    SetCookie(context, key, <<>>, CookieOptions("", FALSE, FALSE, <<>>, <<>>, TRUE, 0))

\* name.toLowerCase() === 'content-type' && typeof value !== 'number'
\*   && ('' + value) in mimeTypeShorthands
ShorthandGiven(name, value) ==
    /\ ToLowerCase(name) = "content-type"
    /\ value.kind # "number"
    /\ IsShorthand(StringOf(value))

\* ctx.setHeader(name, value) for a value of any kind
SetHeaderArg(context, name, value) ==
    [context EXCEPT !.responseHeaders =
        IF ShorthandGiven(name, value)
        THEN HeadersSetValues(@, name, <<StringArg(MimeTypeShorthands(StringOf(value)[1]))>>)
        ELSE HeadersSetValues(@, name, <<value>>)]

\* ctx.addHeader(name, value)
AddHeader(context, name, value) ==
    [context EXCEPT !.responseHeaders =
        IF ShorthandGiven(name, value)
        THEN HeadersAdd(@, name, <<StringArg(MimeTypeShorthands(StringOf(value)[1]))>>)
        ELSE HeadersAdd(@, name, <<value>>)]

\* The most values one header holds in the model.
MaxHeaderValues == 2

\* Inputs: header names, the values handed to setHeader and addHeader, the
\* argument lists handed to Headers.set and Headers.add, cookies.
HeaderNames == {"X-Trace", "x-trace", "Content-Type"}

HeaderArgs ==
    {Undefined, StringArg(<<"on">>), StringArg(<<"html">>), NumberArg(17),
     ArrayArg(<<>>), ArrayArg(<<StringArg(<<"a">>), StringArg(<<"b">>)>>)}

HeaderRestArgs ==
    {<<>>, <<Undefined>>, <<ArrayArg(<<>>)>>, <<StringArg(<<"on">>)>>, <<NumberArg(17)>>,
     <<StringArg(<<"a">>), Undefined, NumberArg(0)>>,
     <<ArrayArg(<<StringArg(<<"a">>), StringArg(<<"b">>)>>)>>}

CookieKeys == {<<"k">>, <<"s", "i", "d">>}

CookieValues == {<<"v">>, <<"a", " ", "b">>}

CookieOptionSets ==
    {NoCookieOptions,
     CookieOptions("lax", TRUE, TRUE, <<>>, <<"/">>, TRUE, 60),
     CookieOptions("", FALSE, FALSE, <<>>, <<>>, TRUE, 0)}

\* Values may be added to a header of the context while it holds fewer
\* than MaxHeaderValues.
RoomFor(name) ==
    ToLowerCase(name) \in DOMAIN ctx.responseHeaders
        => Len(ctx.responseHeaders[ToLowerCase(name)]) < MaxHeaderValues

\* A handler calls ctx.setHeader.
SetHeaderCall(name, value) ==
    /\ ctx' = SetHeaderArg(ctx, name, value)
    /\ UNCHANGED routerVars
    /\ UNCHANGED <<appVars, decorationVars, request>>

\* A handler calls ctx.addHeader.
AddHeaderCall(name, value) ==
    /\ RoomFor(name)
    /\ ctx' = AddHeader(ctx, name, value)
    /\ UNCHANGED routerVars
    /\ UNCHANGED <<appVars, decorationVars, request>>

\* A handler calls ctx.setCookie.
SetCookieCall(key, value, options) ==
    /\ RoomFor("Set-Cookie")
    /\ ctx' = SetCookie(ctx, key, value, options)
    /\ UNCHANGED routerVars
    /\ UNCHANGED <<appVars, decorationVars, request>>

\* A handler calls ctx.removeCookie.
RemoveCookieCall(key) ==
    /\ RoomFor("Set-Cookie")
    /\ ctx' = RemoveCookie(ctx, key)
    /\ UNCHANGED routerVars
    /\ UNCHANGED <<appVars, decorationVars, request>>

\* The message context of one GET request, no response header set yet.
ResponseHeaderInit ==
    /\ MessageInit
    /\ ctx = MessageContextCreate(<<"/">>, "GET", NoAcceptHeader)

ResponseHeaderNext ==
    \/ \E name \in HeaderNames, value \in HeaderArgs : SetHeaderCall(name, value)
    \/ \E name \in HeaderNames, value \in HeaderArgs : AddHeaderCall(name, value)
    \/ \E key \in CookieKeys, value \in CookieValues, options \in CookieOptionSets :
          SetCookieCall(key, value, options)
    \/ \E key \in CookieKeys : RemoveCookieCall(key)

ResponseHeaderSpec == ResponseHeaderInit /\ [][ResponseHeaderNext]_vars

\* Headers.set is called on the container.
HeadersSetCall(name, value) ==
    /\ ctx' = [ctx EXCEPT !.responseHeaders = HeadersSetValues(@, name, value)]
    /\ UNCHANGED routerVars
    /\ UNCHANGED <<appVars, decorationVars, request>>

\* Headers.add is called on the container.
HeadersAddCall(name, value) ==
    /\ RoomFor(name)
    /\ ctx' = [ctx EXCEPT !.responseHeaders = HeadersAdd(@, name, value)]
    /\ UNCHANGED routerVars
    /\ UNCHANGED <<appVars, decorationVars, request>>

HeadersNext ==
    \/ \E name \in HeaderNames, value \in HeaderRestArgs : HeadersSetCall(name, value)
    \/ \E name \in HeaderNames, value \in HeaderRestArgs : HeadersAddCall(name, value)

\* One Headers container, empty at first, under set and add calls.
HeadersSpec == ResponseHeaderInit /\ [][HeadersNext]_vars

\* ------------------------------------------------------------------------
\* bodyAsBuffer and the body stream of a request
\* ------------------------------------------------------------------------

\* resolve(value) or reject(error) of a promise: only a pending promise
\* settles.
Settle(promise, state, size) ==
    IF promise.state = "pending"
    THEN [promise EXCEPT !.state = state, !.size = size]
    ELSE promise

\* The getter bodyAsBuffer: the cached promise when there is one; for a GET
\* request a promise resolved with an empty buffer; with a content-length
\* header of 0 the same; with another content-length a promise that the
\* 'data' listener resolves once totalSize >= length; without the header
\* one that the 'end' listener resolves.  req.on('data', ...) makes the
\* stream flow; req.once('error', reject) follows unless the executor has
\* returned.
BodyAsBuffer(context) ==
    LET body == context.body
        id == body.accesses + 1
        read ==
            CASE body.cachedBodyBuffer.state # "none" -> body
              [] context.method = "GET" ->
                    [body EXCEPT !.cachedBodyBuffer =
                        [id |-> id, state |-> "resolved", size |-> 0]]
              [] body.contentLength.present /\ body.contentLength.value = 0 ->
                    [body EXCEPT !.cachedBodyBuffer =
                        [id |-> id, state |-> "resolved", size |-> 0]]
              [] body.contentLength.present ->
                    [body EXCEPT !.cachedBodyBuffer =
                                    [id |-> id, state |-> "pending", size |-> 0],
                                 !.onData = "length",
                                 !.flowing = TRUE,
                                 !.onError = TRUE]
              [] OTHER ->
                    [body EXCEPT !.cachedBodyBuffer =
                                    [id |-> id, state |-> "pending", size |-> 0],
                                 !.onData = "end",
                                 !.onEnd = TRUE,
                                 !.flowing = TRUE,
                                 !.onError = TRUE]
    IN  [context EXCEPT !.body =
            [read EXCEPT !.returned = @ \cup {read.cachedBodyBuffer.id},
                         !.accesses = @ + 1]]

\* The stream emits 'data' with a chunk of n bytes: the accumulator, while
\* it listens, adds the chunk; the one of the content-length branch stops
\* listening and resolves once totalSize >= length.
EmitData(body, n) ==
    LET rest == [body EXCEPT !.incoming = Tail(@)]
        total == body.totalSize + n
    IN  IF body.onData = "none" THEN rest
        ELSE IF body.onData = "length" /\ total >= body.contentLength.value
        THEN [rest EXCEPT !.totalSize = total,
                          !.onData = "none",
                          !.cachedBodyBuffer = Settle(@, "resolved", total)]
        ELSE [rest EXCEPT !.totalSize = total]

\* The stream emits 'end': the listener of the branch without content-length
\* resolves with what was accumulated.
EmitEnd(body) ==
    IF body.onEnd
    THEN [body EXCEPT !.over = "ended", !.onEnd = FALSE, !.onData = "none",
                      !.cachedBodyBuffer = Settle(@, "resolved", body.totalSize)]
    ELSE [body EXCEPT !.over = "ended"]

\* The stream emits 'error': the once-listener rejects.
EmitError(body) ==
    IF body.onError
    THEN [body EXCEPT !.over = "errored", !.onError = FALSE,
                      !.cachedBodyBuffer = Settle(@, "rejected", 0)]
    ELSE [body EXCEPT !.over = "errored"]

\* Reads of bodyAsBuffer during one request.
MaxBodyAccesses == 2

\* Inputs: the content-length header (none, 0, 2, 3), the chunks the body
\* arrives in, and how the stream finishes.
ContentLengths ==
    {[present |-> FALSE, value |-> 0]}
        \cup {[present |-> TRUE, value |-> n] : n \in {0, 2, 3}}

BodyChunks == {<<>>, <<2>>, <<1, 1>>, <<2, 2>>}

BodyFates == {"end", "error"}

\* A request with a body has arrived and its message context was created;
\* the stream is paused and nothing has read the body.
BodyInit ==
    /\ prefixPaths = <<PrefixPath(<<"/">>)>>
    /\ prefixes = << <<"/">> >>
    /\ parents = <<0>>
    /\ handlers = << <<>> >>
    /\ listeners = <<>>
    /\ lastDetach = NoTarget
    /\ stack = <<>>
    /\ \E method \in {"GET", "POST"}, length \in ContentLengths,
          chunks \in BodyChunks, fate \in BodyFates :
          ctx = [MessageContextCreate(<<"/">>, method, NoAcceptHeader) EXCEPT
                    !.body = [NoBody EXCEPT !.contentLength = length,
                                            !.incoming = chunks,
                                            !.fate = fate]]
    /\ phase = "idle"
    /\ current = NoCurrent
    /\ result = NoResult
    /\ log = <<>>
    /\ handlerCalls = <<>>
    /\ midOps = 0
    /\ app = CreateApp
    /\ installs = <<>>
    /\ decorations = <<>>
    /\ routerFields = <<>>
    /\ request = NoRequest

\* A handler reads ctx.bodyAsBuffer.
BodyAsBufferRead ==
    /\ ctx.body.accesses < MaxBodyAccesses
    /\ ctx' = BodyAsBuffer(ctx)
    /\ UNCHANGED routerVars
    /\ UNCHANGED <<appVars, decorationVars, request>>

\* The flowing stream delivers its next chunk.
DataArrives ==
    /\ ctx.body.flowing
    /\ ctx.body.over = "no"
    /\ Len(ctx.body.incoming) > 0
    /\ ctx' = [ctx EXCEPT !.body = EmitData(@, ctx.body.incoming[1])]
    /\ UNCHANGED routerVars
    /\ UNCHANGED <<appVars, decorationVars, request>>

\* The flowing stream has delivered every chunk and ends.
StreamEnd ==
    /\ ctx.body.flowing
    /\ ctx.body.over = "no"
    /\ ctx.body.fate = "end"
    /\ Len(ctx.body.incoming) = 0
    /\ ctx' = [ctx EXCEPT !.body = EmitEnd(@)]
    /\ UNCHANGED routerVars
    /\ UNCHANGED <<appVars, decorationVars, request>>

\* The flowing stream fails, before or after any of its chunks.
StreamError ==
    /\ ctx.body.flowing
    /\ ctx.body.over = "no"
    /\ ctx.body.fate = "error"
    /\ ctx' = [ctx EXCEPT !.body = EmitError(@)]
    /\ UNCHANGED routerVars
    /\ UNCHANGED <<appVars, decorationVars, request>>

BodyNext ==
    \/ BodyAsBufferRead
    \/ DataArrives
    \/ StreamEnd
    \/ StreamError

BodySpec == BodyInit /\ [][BodyNext]_vars

\* ------------------------------------------------------------------------
\* C31
\* ------------------------------------------------------------------------

IsPrefixOf(before, after) ==
    /\ Len(before) <= Len(after)
    /\ \A i \in 1..Len(before) : after[i] = before[i]

\* The step is a ctx.setHeader call for the header stored under n.
SetHeaderStep(n) ==
    \E name \in HeaderNames, value \in HeaderArgs :
        /\ ToLowerCase(name) = n
        /\ ctx' = SetHeaderArg(ctx, name, value)

\* C32 (as the code has it): addHeader, setCookie and removeCookie keep
\* every value a header already has and put theirs after them; setHeader
\* replaces the values of the one header it names and leaves every other
\* header as it is.
C32_OnlySetHeaderReplaces ==
    [][\A n \in DOMAIN ctx.responseHeaders :
          \/ /\ n \in DOMAIN ctx'.responseHeaders
             /\ IsPrefixOf(ctx.responseHeaders[n], ctx'.responseHeaders[n])
          \/ SetHeaderStep(n)]_vars

\* C32 (as stated): within one request the response header values
\* accumulate; after any setHeader, addHeader, setCookie or removeCookie
\* call every value contributed earlier for a header name is still present
\* and has not been replaced by the later contribution.
C32_EarlierValuesKept ==
    [][\A n \in DOMAIN ctx.responseHeaders :
          /\ n \in DOMAIN ctx'.responseHeaders
          /\ \A i \in 1..Len(ctx.responseHeaders[n]) :
                \E j \in 1..Len(ctx'.responseHeaders[n]) :
                    ctx'.responseHeaders[n][j] = ctx.responseHeaders[n][i]]_vars

\* Two addHeader values under one name, a content type given as a
\* shorthand, and a cookie set and then removed.
C32_Witness ==
    /\ DOMAIN ctx.responseHeaders = {"x-trace", "content-type", "set-cookie"}
    /\ ctx.responseHeaders["x-trace"] = << <<"on">>, <<"1", "7">> >>
    /\ ctx.responseHeaders["content-type"] = << <<"text", "/", "html">> >>
    /\ ctx.responseHeaders["set-cookie"] = << <<"k", "=", "v">>, <<"k", "=">> >>

\* C37: for the Headers container, after any set and add calls (also with
\* undefined or an empty array), has(name) being true implies that
\* get(name) returns a string and does not throw, and get, getAll and has
\* answer the same for names that differ only in letter case.
C37_HasImpliesGetReturnsString ==
    /\ \A name \in HeaderNames :
          HeadersHas(ctx.responseHeaders, name)
              => /\ ~HeadersGet(ctx.responseHeaders, name).thrown
                 /\ HeadersGet(ctx.responseHeaders, name).defined
    /\ \A name, other \in HeaderNames :
          ToLowerCase(name) = ToLowerCase(other)
              => /\ HeadersHas(ctx.responseHeaders, name) = HeadersHas(ctx.responseHeaders, other)
                 /\ HeadersGet(ctx.responseHeaders, name) = HeadersGet(ctx.responseHeaders, other)
                 /\ HeadersGetAll(ctx.responseHeaders, name) = HeadersGetAll(ctx.responseHeaders, other)

\* directive occurs in str
Includes(str, directive) ==
    \E i \in 0..(Len(str) - Len(directive)) :
        \A k \in 1..Len(directive) : str[i + k] = directive[k]

\* C39: removeCookie(key) appends a Set-Cookie value for that key whose
\* serialised form carries the expiry directive Max-Age=0.
C39_RemoveCookieCarriesMaxAgeZero ==
    [][\A key \in CookieKeys :
          (RoomFor("Set-Cookie") /\ ctx' = RemoveCookie(ctx, key))
              => LET values == ctx'.responseHeaders["set-cookie"]
                     value == values[Len(values)]
                 IN  /\ IsPrefixOf(key \o <<"=">>, value)
                     /\ Includes(value, <<"Max-Age", "=", "0">>)]_vars

\* ------------------------------------------------------------------------
\* C33
\* ------------------------------------------------------------------------

\* handlerFunction has written the response of a request whose root
\* dispatch returned Unhandled.
UnhandledWritten ==
    /\ request.at \in {"onMessageHandled", "finished"}
    /\ result.type = "UNHANDLED"

\* C33: when the root dispatch returns Unhandled and an onUnhandled handler
\* is registered, the handler is invoked exactly once and what it returns
\* becomes the response (Handled for undefined, Result of the value
\* otherwise); when none is registered the response status is set to 404
\* and a not-found body is written.  The dispatch does not end with a
\* failure for a request no handler matches.
C33_UnhandledResponse ==
    UnhandledWritten =>
        IF app.onUnhandled = "none"
        THEN /\ EventPositions(HookEvent("onUnhandled", 0, "called")) = {}
             /\ request.handleResult.type = "UNHANDLED"
             /\ ctx.status = 404
             /\ request.res.headWritten
             /\ request.res.status = 404
             /\ request.res.ended
             /\ request.res.body = <<"page", 404, Accepting(ctx, DefaultKeys).invoked[1]>>
        ELSE /\ Cardinality(EventPositions(HookEvent("onUnhandled", 0, "called"))) = 1
             /\ request.res.headWritten
             /\ request.res.status = ctx.status
             /\ request.res.ended
             /\ IF app.onUnhandled = "undefined"
                THEN /\ request.handleResult.type = "HANDLED"
                     /\ request.res.body = ""
                ELSE /\ request.handleResult.type = "RESULT"
                     /\ request.handleResult.result = app.onUnhandled
                     /\ request.res.body = app.onUnhandled

\* A listener is registered, no target matched the request, and the text
\* the onUnhandled handler returned has been written with the status 200.
C33_Witness ==
    /\ UnhandledWritten
    /\ Len(listeners) = 1
    /\ app.onUnhandled = "text"
    /\ Cardinality(EventPositions(HookEvent("onUnhandled", 0, "called"))) = 1
    /\ request.res.status = 200
    /\ request.res.body = "text"

\* ------------------------------------------------------------------------
\* C34
\* ------------------------------------------------------------------------

\* C34: in one dispatch of a request through the router tree, nested
\* routers included, at most one route handler is invoked: once the handler
\* of a listener has run, the handler of no other listener runs for that
\* request.
C34_AtMostOneHandlerInvoked == Len(handlerCalls) <= 1

\* The dispatch went into a sub-router, a handler of a listener of the
\* sub-router ran, and the dispatch is over although another listener
\* matches the request as well.
C34_Witness ==
    /\ phase = "done"
    /\ Len(handlerCalls) = 1
    /\ listeners[handlerCalls[1]].owner = 2
    /\ \E l \in DOMAIN listeners :
          /\ l # handlerCalls[1]
          /\ RegExpTest(listeners[l].regexp, ctx.path)
          /\ \A k \in DOMAIN listeners[l].preConditions :
                listeners[l].preConditions[k] = ctx.method
          /\ \E k \in DOMAIN handlers[listeners[l].owner] :
                handlers[listeners[l].owner][k] = ListenerTarget(l)

\* ------------------------------------------------------------------------
\* C35
\* ------------------------------------------------------------------------

\* Where the extension made by install i stands among the installed ones.
InstalledAt(i) ==
    {p \in DOMAIN app.extensions : app.extensions[p].instance = i}

\* The fields an extension's decoration hooks return for the application,
\* and the value it returns for one of them.
ContributedFields(extension) ==
    DOMAIN extension.decorateRouterContext.fields
        \cup DOMAIN extension.decorateApplication.fields

Contributed(extension, f) ==
    IF f \in DOMAIN extension.decorateApplication.fields
    THEN extension.decorateApplication.fields[f]
    ELSE extension.decorateRouterContext.fields[f]

\* The installed extensions that return field f.
Contributors(f) ==
    {p \in DOMAIN app.extensions : f \in ContributedFields(app.extensions[p])}

\* C35: however install calls that do not await each other interleave
\* (ready or deferred factories, hooks that resolve at different times),
\* the installed extensions stand in the order in which install was called,
\* and once the installs have completed a field two of them decorate the
\* application with holds the value of the one that stands later among
\* the installed extensions.
C35_InstalledInCallOrder ==
    /\ \A i, j \in DOMAIN installs :
          (i < j /\ installs[j].at # "factory")
              => /\ installs[i].at # "factory"
                 /\ \A p \in InstalledAt(i), q \in InstalledAt(j) : p < q
    /\ (\A i \in DOMAIN installs : installs[i].at = "completed")
          => \A p, q \in DOMAIN app.extensions :
                 \A f \in ContributedFields(app.extensions[p])
                               \cap ContributedFields(app.extensions[q]) :
                     (p < q /\ q = Max(Contributors(f)))
                         => app.fields[f] = Contributed(app.extensions[q], f)

\* ------------------------------------------------------------------------
\* C36
\* ------------------------------------------------------------------------

\* The calls decoration task t has made of the hook of its extension k.
HookCalls(t, k) ==
    {m \in DOMAIN decorations[t].events :
        /\ decorations[t].events[m].ev = "called"
        /\ decorations[t].events[m].ext = k}

\* C36: for every request each installed extension's decorateMessageContext
\* hook is invoked exactly once on the message context of the request, and
\* for every sub-router created each installed extension's
\* decorateRouterContext hook is invoked exactly once on that router.
C36_DecorationHookInvokedOnce ==
    \A t \in DOMAIN decorations :
        \A k \in DOMAIN decorations[t].extensions :
            /\ Cardinality(HookCalls(t, k)) <= 1
            /\ (/\ decorations[t].at = "merged"
                /\ decorations[t].extensions[k][decorations[t].functionName].defined)
                  => Cardinality(HookCalls(t, k)) = 1

\* ------------------------------------------------------------------------
\* C38
\* ------------------------------------------------------------------------

\* C38: for a request handlerFunction processes, the core writes the head
\* of the response at most once on every path: a Result, Handled, Unhandled
\* with or without an onUnhandled handler, and a failure of the handler
\* with or without an onError handler; a request processed to its end
\* without being taken over has had its head written.
C38_HeadWrittenAtMostOnce ==
    /\ Cardinality(EventPositions(ResponseEvent("writeHead"))) <= 1
    /\ request.res.headWritten <=> EventPositions(ResponseEvent("writeHead")) # {}
    /\ (request.at = "finished" /\ ~ctx.externallyHandled)
          => Cardinality(EventPositions(ResponseEvent("writeHead"))) = 1

\* The handler of a request threw, the onError handler returned a text and
\* the request is over: the head has been written once, with the text.
C38_Witness ==
    /\ request.at = "finished"
    /\ result.type = "REJECTED"
    /\ app.onError = "text"
    /\ Cardinality(EventPositions(ResponseEvent("writeHead"))) = 1
    /\ request.res.ended
    /\ request.res.body = "text"

\* ------------------------------------------------------------------------
\* C40
\* ------------------------------------------------------------------------

\* C40: every read of bodyAsBuffer within one request returns the same
\* promise, and once the body stream of the request has ended or failed
\* that promise has settled (resolved or rejected), whatever the
\* content-length header declares relative to the bytes received.
C40_BodyPromiseSettles ==
    /\ Cardinality(ctx.body.returned) <= 1
    /\ (ctx.body.accesses > 0 /\ ctx.body.over # "no")
          => ctx.body.cachedBodyBuffer.state \in {"resolved", "rejected"}

====
